---- MODULE Spec2Model ----
(***************************************************************************)
(* The file encryption engine of chrono-filer                              *)
(* (src/src/core/encryption_engine.py, class EncryptionEngine) as a state  *)
(* machine over a small file system.                                       *)
(*                                                                         *)
(* A file is a sequence of units.  A unit is a tuple whose first element   *)
(* is a tag:                                                               *)
(*   <<"raw", v>>        one byte of value v in 0..255                     *)
(*   <<"{">>, <<"}">>    the braces of the JSON text json.dumps writes     *)
(*   <<"kv", k, v>>      the JSON text of one key/value pair of that text  *)
(*   <<"ct", key, iv, idx, pos, pb, flip>>                                 *)
(*                       one byte of AES-CBC ciphertext: byte pos of block *)
(*                       idx of the encryption, under key and iv, of a     *)
(*                       buffer whose byte there is the unit pb; flip is   *)
(*                       the XOR mask applied to the byte since (0: none). *)
(* AES is treated as an ideal cipher: a ciphertext block decrypts to the   *)
(* block it was made from under the key it was made with, and to           *)
(* unpredictable bytes in every other case (another key, a modified block).*)
(* CBC chaining is kept: the decryption of a block is XORed with the       *)
(* previous ciphertext block as it is found in the file.  PBKDF2 and       *)
(* base64 are injective constructors; secrets.token_bytes returns a value  *)
(* it has not returned before.                                             *)
(***************************************************************************)
EXTENDS Integers, Sequences, FiniteSets, TLC

VARIABLES fs, dirs, rng, made, flips, last, nops, keyring, running,
          undo_stack, redo_stack, max_undo_levels, emitted, update_pending

\* The UndoManager (src/src/commands.py): its two stacks, its bound, the
\* signals it has emitted and whether its update timer is running
undo_vars == <<undo_stack, redo_stack, max_undo_levels, emitted, update_pending>>

vars == <<fs, dirs, rng, made, flips, last, nops, keyring, running, undo_vars>>

(***************************************************************************)
(* Bounds of the model.                                                    *)
(***************************************************************************)
MaxOps == 3

(***************************************************************************)
(* Program constants.                                                      *)
(***************************************************************************)
DEFAULT_UNDO_LEVELS == 50
SALT_SIZE == 32
IV_SIZE == 16
ITERATIONS == 100000
BLOCK == 16
PREFIX_LEN == 4
MAX_METADATA == 1048576
BYTE_MOD == 256

Byte == 0 .. (BYTE_MOD - 1)

Min(a, b) == IF a < b THEN a ELSE b
Max(a, b) == IF a > b THEN a ELSE b

(***************************************************************************)
(* Results of a call: a returned value or a raised exception.              *)
(***************************************************************************)
Ok(v) == <<"ok", v>>
Err(type, msg) == <<"err", type, msg>>
IsOk(r) == r[1] = "ok"
IsErr(r) == r[1] = "err"

None == <<>>
Some(v) == <<v>>

(***************************************************************************)
(* Bytes.                                                                  *)
(***************************************************************************)
Raw(v) == <<"raw", v>>
IsRaw(u) == u[1] = "raw"
RawSeq(s) == [i \in 1 .. Len(s) |-> Raw(s[i])]

RECURSIVE Xor(_, _)
Xor(a, b) ==
    IF a = 0 THEN b
    ELSE IF b = 0 THEN a
    ELSE (((a % 2) + (b % 2)) % 2) + 2 * Xor(a \div 2, b \div 2)

RECURSIVE Pow2(_)
Pow2(n) == IF n = 0 THEN 1 ELSE 2 * Pow2(n - 1)

\* int.to_bytes(4, byteorder='big')
ToBytes4(n) ==
    << Raw((n \div (BYTE_MOD * BYTE_MOD * BYTE_MOD)) % BYTE_MOD),
       Raw((n \div (BYTE_MOD * BYTE_MOD)) % BYTE_MOD),
       Raw((n \div BYTE_MOD) % BYTE_MOD),
       Raw(n % BYTE_MOD) >>

\* The value of one unit read as a byte.  Units of JSON text and of
\* ciphertext are bytes of the file too; the model gives them no numeric
\* value, and a length prefix is only ever read from raw bytes here.
ByteVal(u) == IF IsRaw(u) THEN u[2] ELSE BYTE_MOD - 1

\* int.from_bytes(b, byteorder='big') of four bytes
FromBytes4(b) ==
    ByteVal(b[1]) * (BYTE_MOD * BYTE_MOD * BYTE_MOD)
    + ByteVal(b[2]) * (BYTE_MOD * BYTE_MOD)
    + ByteVal(b[3]) * BYTE_MOD
    + ByteVal(b[4])

\* f.read(n) at offset off (0-based) and what follows
ReadAt(data, off, n) == SubSeq(data, off + 1, Min(Len(data), off + n))
ReadRest(data, off) == SubSeq(data, off + 1, Len(data))

(***************************************************************************)
(* File names.  A name is a sequence of tokens: <<"s", w>> a word without  *)
(* dot or underscore, <<"c", k>> the text "_k", <<"x", e>> the text ".e".  *)
(* A path is <<directory, name>>.                                          *)
(***************************************************************************)
Word(w) == <<"s", w>>
Counter(k) == <<"c", k>>
Ext(e) == <<"x", e>>
IsExt(t) == t[1] = "x"

Path(d, n) == <<d, n>>
Parent(p) == p[1]
Name(p) == p[2]

\* pathlib PurePath.suffix: the last dot-component of the name, except a
\* leading one (".bashrc" has no suffix)
Suffix(n) ==
    IF Len(n) > 1 /\ IsExt(n[Len(n)]) THEN <<n[Len(n)]>> ELSE <<>>

\* pathlib PurePath.stem
Stem(n) == SubSeq(n, 1, Len(n) - Len(Suffix(n)))

\* source_path.with_suffix(source_path.suffix + '.encrypted')
WithEncryptedSuffix(p) ==
    Path(Parent(p), Stem(Name(p)) \o Suffix(Name(p)) \o <<Ext("encrypted")>>)

\* str.lower() on a suffix
LowerExt(e) == IF e = "ENCRYPTED" THEN "encrypted" ELSE e
SuffixLower(n) == [i \in 1 .. Len(Suffix(n)) |-> Ext(LowerExt(Suffix(n)[i][2]))]

\* output_path.parent / f"{base_name}_{counter}{extension}"
Candidate(parent, base_name, counter, extension) ==
    Path(parent, base_name \o <<Counter(counter)>> \o extension)

(***************************************************************************)
(* The file system: fs maps every existing path to an entry; dirs is the   *)
(* set of existing top-level directories.                                  *)
(***************************************************************************)
File(data) == [kind |-> "file", readable |-> TRUE, data |-> data]
Locked(data) == [kind |-> "file", readable |-> FALSE, data |-> data]
Folder == [kind |-> "dir", readable |-> TRUE, data |-> <<>>]

\* Path.exists()
Exists(f, p) == p \in DOMAIN f
\* Path.is_file()
IsFile(f, p) == Exists(f, p) /\ f[p].kind = "file"

\* open(path, 'rb') and f.read(): the bytes, or the OSError raised
OpenRead(f, p) ==
    IF ~Exists(f, p) THEN Err("FileNotFoundError", "open")
    ELSE IF f[p].kind = "dir" THEN Err("IsADirectoryError", "open")
    ELSE IF ~f[p].readable THEN Err("PermissionError", "open")
    ELSE Ok(f[p].data)

\* open(path, 'wb'), write, close: the new file system, or the OSError raised
OpenWrite(f, d, p, data) ==
    IF Parent(p) \notin d THEN Err("FileNotFoundError", "open")
    ELSE IF Exists(f, p) /\ f[p].kind = "dir" THEN Err("IsADirectoryError", "open")
    ELSE IF Exists(f, p) /\ ~f[p].readable THEN Err("PermissionError", "open")
    ELSE Ok([q \in DOMAIN f \cup {p} |-> IF q = p THEN File(data) ELSE f[q]])

(***************************************************************************)
(* JSON, base64 and the container framing.                                 *)
(***************************************************************************)
JStr(s) == <<"str", s>>
JNum(n) == <<"num", n>>
JName(n) == <<"name", n>>

\* base64.b64encode(b).decode('utf-8') and base64.b64decode(s).  The strings
\* that are not b64encode's and reach b64decode here ("a") have a length
\* base64 does not take; a number is no string at all
B64Encode(b) == <<"b64", b>>
B64Decode(v) ==
    IF v[1] = "b64" THEN Ok(v[2])
    ELSE IF v[1] \in {"str", "name"} THEN Err("binascii.Error", "b64decode")
    ELSE Err("TypeError", "b64decode")

MetaKeys ==
    << "original_filename", "original_size", "encrypted_size", "salt", "iv",
       "algorithm", "key_derivation", "iterations" >>

\* json.dumps(metadata).encode('utf-8'): the keys in insertion order
JsonDumps(m) ==
    LET present == SelectSeq(MetaKeys, LAMBDA k : k \in DOMAIN m)
    IN  <<<<"{">>>> \o [i \in 1 .. Len(present) |-> <<"kv", present[i], m[present[i]]>>]
        \o <<<<"}">>>>

IsDigit(u) == IsRaw(u) /\ u[2] \in 48 .. 57
IsQuote(u) == IsRaw(u) /\ u[2] = 34

\* json.loads(metadata_bytes.decode('utf-8')): the parsed value, or the
\* error raised.  The JSON texts told apart: an object as json.dumps writes
\* it, a number (digits), a string ("..."), the empty array ([]).
JsonLoads(b) ==
    IF \E i \in 1 .. Len(b) : IsRaw(b[i]) /\ b[i][2] >= 128
        THEN Err("UnicodeDecodeError", "decode")
    ELSE IF Len(b) >= 2 /\ b[1] = <<"{">> /\ b[Len(b)] = <<"}">>
            /\ \A i \in 2 .. Len(b) - 1 : b[i][1] = "kv"
        THEN LET keys == {b[i][2] : i \in 2 .. Len(b) - 1}
                 last_of(k) == CHOOSE i \in 2 .. Len(b) - 1 :
                                 /\ b[i][2] = k
                                 /\ \A j \in i + 1 .. Len(b) - 1 : b[j][2] # k
             IN  Ok(<<"obj", [k \in keys |-> b[last_of(k)][3]]>>)
    ELSE IF Len(b) >= 1 /\ \A i \in 1 .. Len(b) : IsDigit(b[i])
        THEN Ok(<<"int">>)
    ELSE IF Len(b) >= 2 /\ IsQuote(b[1]) /\ IsQuote(b[Len(b)])
            /\ \A i \in 2 .. Len(b) - 1 : IsRaw(b[i]) /\ b[i][2] \notin {34, 92}
        THEN Ok(<<"string">>)
    ELSE IF b = <<Raw(91), Raw(93)>>
        THEN Ok(<<"list">>)
    ELSE Err("JSONDecodeError", "loads")

IsDict(v) == v[1] = "obj"
\* metadata.get(key): None when the key is absent
DictGet(v, k) == IF k \in DOMAIN v[2] THEN v[2][k] ELSE None

(***************************************************************************)
(* Randomness, key derivation, padding and the cipher.                     *)
(***************************************************************************)
\* secrets.token_bytes(n): the value of the k-th draw of the generator
TokenBytes(n, k) == <<"rnd", n, k>>

\* PBKDF2-HMAC-SHA256 of the password under the salt, always with the
\* engine's own ITERATIONS
DeriveKey(password, salt) == <<"key", password, salt, ITERATIONS>>

\* _pad_data that adds no block to a buffer that is already aligned
PadDataNoFullBlock(data) ==
    LET padding_length == (BLOCK - (Len(data) % BLOCK)) % BLOCK
    IN  data \o [i \in 1 .. padding_length |-> Raw(padding_length)]

\* data + bytes([padding_length] * padding_length)
PadData(data) ==
    LET padding_length == BLOCK - (Len(data) % BLOCK)
    IN  data \o [i \in 1 .. padding_length |-> Raw(padding_length)]

\* _unpad_data without its bound check: any last byte is taken as a length
UnpadDataUnchecked(data) ==
    IF data = <<>> THEN Ok(data)
    ELSE LET padding_length == ByteVal(data[Len(data)])
         IN  IF padding_length = 0 THEN Ok(<<>>)
             ELSE Ok(SubSeq(data, 1, Max(Len(data) - padding_length, 0)))

\* data[:-padding_length], which is empty when padding_length is 0
UnpadData(data) ==
    IF data = <<>> THEN Ok(data)
    ELSE LET padding_length == ByteVal(data[Len(data)])
         IN  IF padding_length > BLOCK THEN Err("ValueError", "Invalid padding")
             ELSE IF padding_length = 0 THEN Ok(<<>>)
             ELSE Ok(SubSeq(data, 1, Len(data) - padding_length))

\* Cipher(algorithms.AES(key), modes.CBC(iv)).encryptor(): update + finalize
CbcEncrypt(key, iv, padded) ==
    [n \in 1 .. Len(padded) |->
        <<"ct", key, iv, ((n - 1) \div BLOCK) + 1, ((n - 1) % BLOCK) + 1, padded[n], 0>>]

\* A byte XORed with a mask
FlipUnit(u, m) == IF m = 0 THEN u ELSE Raw(Xor(ByteVal(u), m))

\* Block j of ct is an unmodified block made under key
BlockIntact(ct, j, key) ==
    LET at(i) == ct[(j - 1) * BLOCK + i]
    IN  \A i \in 1 .. BLOCK :
            /\ at(i)[1] = "ct"
            /\ at(i)[2] = key
            /\ at(i)[3] = at(1)[3]
            /\ at(i)[4] = at(1)[4]
            /\ at(i)[5] = i
            /\ at(i)[7] = 0

\* The block before block j in ct (the iv for the first block) is the one
\* block j was chained to when it was made, up to flipped bits
ChainIntact(ct, j, key, iv) ==
    LET first == ct[(j - 1) * BLOCK + 1]
        before(i) == ct[(j - 2) * BLOCK + i]
    IN  IF j = 1 THEN first[4] = 1 /\ first[3] = iv
        ELSE \A i \in 1 .. BLOCK :
                /\ before(i)[1] = "ct"
                /\ before(i)[2] = key
                /\ before(i)[3] = first[3]
                /\ before(i)[4] = first[4] - 1
                /\ before(i)[5] = i

\* Block decryption that XORs nothing of the block before into the result
DecryptBlockUnchained(ct, j, key, iv, g) ==
    IF BlockIntact(ct, j, key) /\ ChainIntact(ct, j, key, iv)
    THEN [i \in 1 .. BLOCK |-> ct[(j - 1) * BLOCK + i][6]]
    ELSE [i \in 1 .. BLOCK |-> Raw(g)]

\* The decryption of block j of ct.  g is the value the unpredictable
\* bytes take in this call.
DecryptBlock(ct, j, key, iv, g) ==
    IF BlockIntact(ct, j, key) /\ ChainIntact(ct, j, key, iv)
    THEN [i \in 1 .. BLOCK |->
            FlipUnit(ct[(j - 1) * BLOCK + i][6],
                     IF j = 1 THEN 0 ELSE ct[(j - 2) * BLOCK + i][7])]
    ELSE [i \in 1 .. BLOCK |-> Raw(g)]

RECURSIVE DecryptFrom(_, _, _, _, _)
DecryptFrom(ct, j, key, iv, g) ==
    IF j > Len(ct) \div BLOCK THEN <<>>
    ELSE DecryptBlock(ct, j, key, iv, g) \o DecryptFrom(ct, j + 1, key, iv, g)

\* A decryptor that decrypts the whole blocks and drops the rest
CbcDecryptWholeBlocks(key, iv, ct, g) == Ok(DecryptFrom(ct, 1, key, iv, g))

\* Cipher(algorithms.AES(key), modes.CBC(iv)).decryptor(): update + finalize
CbcDecrypt(key, iv, ct, g) ==
    IF Len(ct) % BLOCK # 0 THEN Err("ValueError", "not a multiple of the block length")
    ELSE Ok(DecryptFrom(ct, 1, key, iv, g))

\* A CBC mode that takes an iv of any size
IvUnchecked(iv) == TRUE

\* modes.CBC(iv) accepts an iv of the block size only
IvOk(iv) == iv[1] = "rnd" /\ iv[2] = IV_SIZE

(***************************************************************************)
(* The container: 4-byte big-endian length, metadata, ciphertext.          *)
(***************************************************************************)
ALGORITHM == "AES-256-CBC"
DECRYPT_FAILED == "Decryption failed - invalid password or corrupted file"

\* metadata whose original_size is the length of the padded data
MetadataPaddedSize(name, plaintext, ciphertext, salt, iv) ==
    [ original_filename |-> JName(name),
      original_size |-> JNum(Len(ciphertext)),
      encrypted_size |-> JNum(Len(ciphertext)),
      salt |-> B64Encode(salt),
      iv |-> B64Encode(iv),
      algorithm |-> JStr(ALGORITHM),
      key_derivation |-> JStr("PBKDF2-SHA256"),
      iterations |-> JNum(ITERATIONS) ]

Metadata(name, plaintext, ciphertext, salt, iv) ==
    [ original_filename |-> JName(name),
      original_size |-> JNum(Len(plaintext)),
      encrypted_size |-> JNum(Len(ciphertext)),
      salt |-> B64Encode(salt),
      iv |-> B64Encode(iv),
      algorithm |-> JStr(ALGORITHM),
      key_derivation |-> JStr("PBKDF2-SHA256"),
      iterations |-> JNum(ITERATIONS) ]

\* f.write(metadata_length.to_bytes(4, 'big')); f.write(metadata_bytes);
\* f.write(ciphertext)
ContainerBytes(metadata, ciphertext) ==
    LET metadata_bytes == JsonDumps(metadata)
    IN  ToBytes4(Len(metadata_bytes)) \o metadata_bytes \o ciphertext

\* The three reads every reader of a container starts with
MetadataLengthBytes(data) == ReadAt(data, 0, PREFIX_LEN)
MetadataBytes(data) == ReadAt(data, PREFIX_LEN, FromBytes4(MetadataLengthBytes(data)))
Ciphertext(data) == ReadRest(data, PREFIX_LEN + Len(MetadataBytes(data)))

(***************************************************************************)
(* EncryptionEngine.encrypt_file.  The outcome of a call made with file    *)
(* system f, directories d and r draws of the generator so far: what it    *)
(* returns or raises, the file system and the number of draws after it.    *)
(***************************************************************************)
Outcome(res, f, r) == [res |-> res, fs |-> f, rng |-> r]

\* A salt made once and used for every file
SaltOnce(r) == TokenBytes(SALT_SIZE, 1)

\* salt = secrets.token_bytes(self.SALT_SIZE), after r draws
NewSalt(r) == TokenBytes(SALT_SIZE, r + 1)

\* iv = secrets.token_bytes(16), after r draws and the salt's
NewIv(r) == TokenBytes(IV_SIZE, r + 2)

\* output_path = source_path.with_suffix(source_path.suffix + '.encrypted')
DefaultOutput(source_path) == WithEncryptedSuffix(source_path)

\* The existence check left out
NeverMissing(f, path) == FALSE

\* not source_path.exists(), not encrypted_path.exists()
IsMissing(f, path) == ~Exists(f, path)

encrypt_file(f, d, r, source_path, password, output_arg) ==
    IF IsMissing(f, source_path)
    THEN Outcome(Err("FileNotFoundError", "Source file not found"), f, r)
    ELSE
    LET output_path == IF output_arg = None THEN DefaultOutput(source_path)
                       ELSE output_arg[1]
        salt == NewSalt(r)
        key == DeriveKey(password, salt)
        iv == NewIv(r)
        source == OpenRead(f, source_path)
    IN  IF IsErr(source) THEN Outcome(source, f, r + 2)
        ELSE
        LET plaintext == source[2]
            padded_data == PadData(plaintext)
            ciphertext == CbcEncrypt(key, iv, padded_data)
            metadata == Metadata(Name(source_path), plaintext, ciphertext, salt, iv)
            written == OpenWrite(f, d, output_path, ContainerBytes(metadata, ciphertext))
        IN  IF IsErr(written) THEN Outcome(written, f, r + 2)
            ELSE Outcome(Ok(output_path), written[2], r + 2)

(***************************************************************************)
(* EncryptionEngine.decrypt_file.  g is the value unpredictable bytes take.*)
(***************************************************************************)
\* The collision loop run once, whether or not its first candidate exists
FreePathFirstCandidate(f, output_path) ==
    IF ~Exists(f, output_path) THEN output_path
    ELSE Candidate(Parent(output_path), Stem(Name(output_path)), 1,
                   Suffix(Name(output_path)))

\* A number of candidates after which a capped loop would stop
CandidateCap == 2

\* The collision loop stopped after CandidateCap candidates, whether or not
\* the last of them is free
FreePathCapped(f, output_path) ==
    IF ~Exists(f, output_path) THEN output_path
    ELSE LET base_name == Stem(Name(output_path))
             extension == Suffix(Name(output_path))
             cand(k) == Candidate(Parent(output_path), base_name, k, extension)
             counter == CHOOSE k \in 1 .. CandidateCap :
                            /\ ~Exists(f, cand(k)) \/ k = CandidateCap
                            /\ \A h \in 1 .. k - 1 : Exists(f, cand(h))
         IN  cand(counter)

\* A collision loop that is not there: the path as it was asked for
FreePathOverwrite(f, output_path) == output_path

\* The first name of output_path, output_path_1, output_path_2, ... that
\* does not exist
FreePath(f, output_path) ==
    IF ~Exists(f, output_path) THEN output_path
    ELSE LET base_name == Stem(Name(output_path))
             extension == Suffix(Name(output_path))
             cand(k) == Candidate(Parent(output_path), base_name, k, extension)
             counter == CHOOSE k \in 1 .. Cardinality(DOMAIN f) + 1 :
                            /\ ~Exists(f, cand(k))
                            /\ \A h \in 1 .. k - 1 : Exists(f, cand(h))
         IN  cand(counter)

\* decryptor.update(ciphertext) + decryptor.finalize(), then _unpad_data
DecryptAndUnpad(key, iv, ciphertext, g) ==
    CHOOSE plaintext \in
        { IF IsErr(padded_plaintext) THEN padded_plaintext
          ELSE UnpadData(padded_plaintext[2]) :
            padded_plaintext \in {CbcDecrypt(key, iv, ciphertext, g)} } : TRUE

\* metadata['salt'] or metadata['iv'], base64-decoded
MetaBytes(metadata, k) ==
    IF ~IsDict(metadata) THEN Err("TypeError", k)
    ELSE IF k \notin DOMAIN metadata[2] THEN Err("KeyError", k)
    ELSE B64Decode(metadata[2][k])

\* The check of the algorithm left out
AlgorithmUnchecked(metadata) == TRUE

\* not (metadata.get('algorithm') != 'AES-256-CBC')
AlgorithmSupported(metadata) == DictGet(metadata, "algorithm") = JStr(ALGORITHM)

\* The exception of the cipher or of _unpad_data let through as it is
SameError(e) == e

\* except Exception as e: raise ValueError("Decryption failed - ...") from e
DecryptionFailure(e) == Err("ValueError", DECRYPT_FAILED)

decrypt_file(f, d, r, encrypted_path, password, output_arg, g) ==
    IF IsMissing(f, encrypted_path)
    THEN Outcome(Err("FileNotFoundError", "Encrypted file not found"), f, r)
    ELSE
    LET source == OpenRead(f, encrypted_path)
    IN  IF IsErr(source) THEN Outcome(source, f, r)
        ELSE IF Len(MetadataLengthBytes(source[2])) # PREFIX_LEN
        THEN Outcome(Err("ValueError", "Invalid encrypted file format"), f, r)
        ELSE
        LET ciphertext == Ciphertext(source[2])
            parsed == JsonLoads(MetadataBytes(source[2]))
        IN  IF IsErr(parsed)
            THEN Outcome(Err("ValueError", "Invalid metadata in encrypted file"), f, r)
            ELSE
            LET metadata == parsed[2]
            IN  IF ~IsDict(metadata) THEN Outcome(Err("AttributeError", "get"), f, r)
                ELSE IF ~AlgorithmSupported(metadata)
                THEN Outcome(Err("ValueError", "Unsupported encryption algorithm"), f, r)
                ELSE
                LET salt == MetaBytes(metadata, "salt")
                    iv == MetaBytes(metadata, "iv")
                IN  IF IsErr(salt) THEN Outcome(salt, f, r)
                    ELSE IF IsErr(iv) THEN Outcome(iv, f, r)
                    ELSE IF ~IvOk(iv[2]) THEN Outcome(Err("ValueError", "Invalid IV size"), f, r)
                    ELSE
                    LET key == DeriveKey(password, salt[2])
                        plaintext == DecryptAndUnpad(key, iv[2], ciphertext, g)
                    IN  IF IsErr(plaintext)
                        THEN Outcome(DecryptionFailure(plaintext), f, r)
                        ELSE IF output_arg = None /\ "original_filename" \notin DOMAIN metadata[2]
                        THEN Outcome(Err("KeyError", "original_filename"), f, r)
                        ELSE IF output_arg = None /\ metadata[2]["original_filename"][1] # "name"
                        THEN Outcome(Err("TypeError", "original_filename"), f, r)
                        ELSE
                        LET wanted == IF output_arg = None
                                      THEN Path(Parent(encrypted_path),
                                                metadata[2]["original_filename"][2])
                                      ELSE output_arg[1]
                            output_path == FreePath(f, wanted)
                            written == OpenWrite(f, d, output_path, plaintext[2])
                        IN  IF IsErr(written) THEN Outcome(written, f, r)
                            ELSE Outcome(Ok(output_path), written[2], r)

(***************************************************************************)
(* EncryptionEngine.verify_encrypted_file: everything inside one           *)
(* try/except Exception that returns False.                                *)
(***************************************************************************)
\* The check of the size left out
SizeUnchecked(plaintext, metadata) == TRUE

\* metadata.get('original_size', 0)
ExpectedSize(metadata) ==
    IF "original_size" \in DOMAIN metadata[2] THEN metadata[2]["original_size"]
    ELSE JNum(0)

\* A check that only refuses a plaintext longer than expected
SizeNotAbove(plaintext, metadata) ==
    ExpectedSize(metadata)[1] = "num" /\ Len(plaintext) <= ExpectedSize(metadata)[2]

\* not (len(plaintext) != expected_size)
SizeMatches(plaintext, metadata) == JNum(Len(plaintext)) = ExpectedSize(metadata)

verify_encrypted_file(f, encrypted_path, password, g) ==
    LET source == OpenRead(f, encrypted_path)
    IN  IF IsErr(source) THEN Ok(FALSE)
        ELSE IF Len(MetadataLengthBytes(source[2])) # PREFIX_LEN THEN Ok(FALSE)
        ELSE
        LET ciphertext == Ciphertext(source[2])
            parsed == JsonLoads(MetadataBytes(source[2]))
        IN  IF IsErr(parsed) THEN Ok(FALSE)
            ELSE IF ~IsDict(parsed[2]) THEN Ok(FALSE)
            ELSE IF ~AlgorithmSupported(parsed[2]) THEN Ok(FALSE)
            ELSE
            LET salt == MetaBytes(parsed[2], "salt")
                iv == MetaBytes(parsed[2], "iv")
            IN  IF IsErr(salt) \/ IsErr(iv) THEN Ok(FALSE)
                ELSE IF ~IvOk(iv[2]) THEN Ok(FALSE)
                ELSE
                LET plaintext == DecryptAndUnpad(DeriveKey(password, salt[2]), iv[2],
                                                 ciphertext, g)
                IN  IF IsErr(plaintext) THEN Ok(FALSE)
                    ELSE IF ~SizeMatches(plaintext[2], parsed[2]) THEN Ok(FALSE)
                    ELSE Ok(TRUE)

(***************************************************************************)
(* EncryptionEngine.is_encrypted_file.                                     *)
(***************************************************************************)
\* A required field that encrypt_file does not write
RequiredFieldsWithVersion == {"algorithm", "salt", "iv", "original_filename", "version"}

\* required_fields = ['algorithm', 'salt', 'iv', 'original_filename']
REQUIRED_FIELDS == {"algorithm", "salt", "iv", "original_filename"}

is_encrypted_file(f, file_path) ==
    IF ~Exists(f, file_path) \/ ~IsFile(f, file_path) THEN Ok(FALSE)
    ELSE IF SuffixLower(Name(file_path)) = <<Ext("encrypted")>> THEN Ok(TRUE)
    ELSE
    LET source == OpenRead(f, file_path)
    IN  IF IsErr(source) THEN Ok(FALSE)
        ELSE IF Len(MetadataLengthBytes(source[2])) # PREFIX_LEN THEN Ok(FALSE)
        ELSE
        LET metadata_length == FromBytes4(MetadataLengthBytes(source[2]))
            metadata_bytes == MetadataBytes(source[2])
        IN  IF metadata_length > MAX_METADATA THEN Ok(FALSE)
            ELSE IF Len(metadata_bytes) # metadata_length THEN Ok(FALSE)
            ELSE
            LET parsed == JsonLoads(metadata_bytes)
            IN  IF IsErr(parsed) THEN Ok(FALSE)
                ELSE IF IsDict(parsed[2])
                    THEN Ok(\A field \in REQUIRED_FIELDS : field \in DOMAIN parsed[2][2])
                \* 'algorithm' in 5 raises; 'algorithm' in "" and in [] are False
                ELSE IF parsed[2][1] = "int"
                    THEN Err("TypeError", "argument of type 'int' is not iterable")
                ELSE Ok(FALSE)

(***************************************************************************)
(* EncryptionEngine.batch_encrypt_files: the loop from entry i on, with    *)
(* the paths returned so far.  An exception of encrypt_file leaves the     *)
(* loop and the call.                                                      *)
(***************************************************************************)
RECURSIVE BatchFrom(_, _, _, _, _, _, _, _)
BatchFrom(f, d, r, source_paths, password, output_dir, i, encrypted_files) ==
    IF i > Len(source_paths) THEN Outcome(Ok(encrypted_files), f, r)
    ELSE IF ~IsFile(f, source_paths[i])
    THEN BatchFrom(f, d, r, source_paths, password, output_dir, i + 1, encrypted_files)
    ELSE
    LET output_path == Path(output_dir, Name(source_paths[i]) \o <<Ext("encrypted")>>)
        one == encrypt_file(f, d, r, source_paths[i], password, Some(output_path))
    IN  IF IsErr(one.res) THEN one
        ELSE BatchFrom(one.fs, d, one.rng, source_paths, password, output_dir, i + 1,
                       Append(encrypted_files, one.res[2]))

batch_encrypt_files(f, d, r, source_paths, password, output_dir) ==
    BatchFrom(f, d \cup {output_dir}, r, source_paths, password, output_dir, 1, <<>>)

(***************************************************************************)
(* The state machine.  fs, dirs: the file system.  rng: the number of      *)
(* draws made from secrets.token_bytes.  made: the containers encrypt_file *)
(* has written, in order (history).  flips: the bits flipped in them       *)
(* since (history).  last: the last call, its arguments,                   *)
(* its result, the file system it started from and the value g its         *)
(* unpredictable bytes took (history).  nops: the number of calls made.    *)
(* keyring: the calls made to keyring.set_password, in order.  running:    *)
(* the calls that threads have begun and not finished.                     *)
(***************************************************************************)
Passwords == {"pw1", "pw2"}
GarbageBytes == {0, 1, 16, 17}

\* The plaintext of n bytes: letters
Plain(n) == [i \in 1 .. n |-> Raw(65 + (i % 26))]
PlainLengths == {0, 1, 15, 16, 17}

NameTxt == <<Word("name"), Ext("txt")>>
SourceFile == Path("d1", NameTxt)
OutBin == Path("d1", <<Word("out"), Ext("bin")>>)
Missing == Path("d1", <<Word("missing")>>)

NoCall == [op |-> "none", src |-> None, pw |-> "", out |-> None, res |-> Ok(None),
           pre |-> <<>>, g |-> 0]
Call(op, src, pw, out, res, pre, g) ==
    [op |-> op, src |-> src, pw |-> pw, out |-> out, res |-> res, pre |-> pre, g |-> g]

\* The calls whose decryption meets no unpredictable byte: every block of
\* the file at p is an unmodified block made under the key that password
\* derives, chained as it was made
Predictable(f, p, password) ==
    /\ IsFile(f, p)
    /\ f[p].readable
    /\ Len(MetadataLengthBytes(f[p].data)) = PREFIX_LEN
    /\ \E parsed \in {JsonLoads(MetadataBytes(f[p].data))} :
        /\ IsOk(parsed)
        /\ IsDict(parsed[2])
        /\ IsOk(MetaBytes(parsed[2], "salt"))
        /\ IsOk(MetaBytes(parsed[2], "iv"))
        /\ \E ct \in {Ciphertext(f[p].data)} :
            \A j \in 1 .. Len(ct) \div BLOCK :
                /\ BlockIntact(ct, j, DeriveKey(password, MetaBytes(parsed[2], "salt")[2]))
                /\ ChainIntact(ct, j, DeriveKey(password, MetaBytes(parsed[2], "salt")[2]),
                               MetaBytes(parsed[2], "iv")[2])

\* The values the unpredictable bytes of a decryption can take
Guesses(p, password) ==
    IF ~Exists(fs, p) \/ Predictable(fs, p, password) THEN {0} ELSE GarbageBytes

\* UndoManager.__init__(max_undo_levels)
UndoManagerInit(levels) ==
    /\ undo_stack = <<>>
    /\ redo_stack = <<>>
    /\ max_undo_levels = levels
    /\ emitted = <<>>
    /\ update_pending = FALSE

Init ==
    /\ \E n \in PlainLengths : fs = (SourceFile :> File(Plain(n)))
    /\ dirs = {"d1"}
    /\ rng = 0
    /\ made = <<>>
    /\ flips = {}
    /\ keyring = <<>>
    /\ running = <<>>
    /\ last = NoCall
    /\ nops = 0
    /\ UndoManagerInit(DEFAULT_UNDO_LEVELS)

OutputArgs(p) == {None, Some(OutBin), Some(p)}

EncryptFile(source_path, password, output_arg) ==
    /\ nops < MaxOps
    /\ \E o \in {encrypt_file(fs, dirs, rng, source_path, password, output_arg)} :
           /\ fs' = o.fs
           /\ rng' = o.rng
           /\ made' = IF IsOk(o.res)
                      THEN Append(made, [path |-> o.res[2], pw |-> password,
                                         src |-> source_path,
                                         plain |-> fs[source_path].data,
                                         data |-> o.fs[o.res[2]].data])
                      ELSE made
           /\ last' = Call("encrypt_file", source_path, password, output_arg, o.res, fs, 0)
    /\ nops' = nops + 1
    /\ UNCHANGED <<dirs, flips, keyring, running, undo_vars>>

DecryptFile(encrypted_path, password, output_arg, g) ==
    /\ nops < MaxOps
    /\ \E o \in {decrypt_file(fs, dirs, rng, encrypted_path, password, output_arg, g)} :
           /\ fs' = o.fs
           /\ last' = Call("decrypt_file", encrypted_path, password, output_arg, o.res, fs, g)
    /\ nops' = nops + 1
    /\ UNCHANGED <<dirs, rng, made, flips, keyring, running, undo_vars>>

VerifyEncryptedFile(encrypted_path, password, g) ==
    /\ nops < MaxOps
    /\ last' = Call("verify_encrypted_file", encrypted_path, password, None,
                    verify_encrypted_file(fs, encrypted_path, password, g), fs, g)
    /\ nops' = nops + 1
    /\ UNCHANGED <<fs, dirs, rng, made, flips, keyring, running, undo_vars>>

IsEncryptedFile(file_path) ==
    /\ nops < MaxOps
    /\ last' = Call("is_encrypted_file", file_path, "", None,
                    is_encrypted_file(fs, file_path), fs, 0)
    /\ nops' = nops + 1
    /\ UNCHANGED <<fs, dirs, rng, made, flips, keyring, running, undo_vars>>

\* The files the file browser offers to encrypt and to decrypt
\* (file_encryption_actions.py: encrypt_files keeps the files that
\* is_encrypted_file rejects, decrypt_files those it accepts)
ToEncrypt == {p \in DOMAIN fs : is_encrypted_file(fs, p) = Ok(FALSE) /\ IsFile(fs, p)}
ToDecrypt == {p \in DOMAIN fs : is_encrypted_file(fs, p) = Ok(TRUE)}

Next ==
    \/ \E p \in ToEncrypt, pw \in Passwords : \E out \in OutputArgs(p) :
            EncryptFile(p, pw, out)
    \/ \E p \in ToDecrypt, pw \in Passwords : \E g \in Guesses(p, pw) :
            \E out \in {None, Some(OutBin)} : DecryptFile(p, pw, out, g)

Spec == Init /\ [][Next]_vars

(***************************************************************************)
(* Tampering.  FlipBit is the environment flipping bit number bit of byte  *)
(* n of the ciphertext of a container that is still as encrypt_file wrote  *)
(* it.                                                                     *)
(***************************************************************************)
Bits == {0, 4, 7}

\* The container's bytes with the flip recorded on ciphertext byte n
FlipAt(data, n, bit) ==
    LET at == Len(data) - Len(Ciphertext(data)) + n
    IN  [data EXCEPT ![at] = <<"ct", @[2], @[3], @[4], @[5], @[6], Xor(@[7], Pow2(bit))>>]

FlipBit(p, n, bit) ==
    /\ nops < MaxOps
    /\ \E i \in 1 .. Len(made) :
        /\ Exists(fs, p) /\ made[i].path = p /\ fs[p] = File(made[i].data)
        /\ n \in 1 .. Len(Ciphertext(made[i].data))
        /\ \E flipped \in {FlipAt(made[i].data, n, bit)} :
            /\ fs' = [fs EXCEPT ![p] = File(flipped)]
            /\ flips' = flips \cup {[path |-> p, of |-> i, n |-> n, bit |-> bit,
                                     data |-> flipped]}
            /\ last' = Call("flip", p, "", None, Ok(<<n, bit>>), fs, 0)
    /\ nops' = nops + 1
    /\ UNCHANGED <<dirs, rng, made, keyring, running, undo_vars>>

MaxCiphertext == 2 * BLOCK

NextTamper ==
    \/ \E p \in ToEncrypt, pw \in Passwords : EncryptFile(p, pw, None)
    \/ \E p \in ToDecrypt, n \in 1 .. MaxCiphertext, bit \in Bits : FlipBit(p, n, bit)
    \/ \E p \in ToDecrypt, pw \in Passwords : \E g \in Guesses(p, pw) :
            DecryptFile(p, pw, None, g)
    \/ \E p \in ToDecrypt, pw \in Passwords : \E g \in Guesses(p, pw) :
            VerifyEncryptedFile(p, pw, g)

SpecTamper == Init /\ [][NextTamper]_vars

(***************************************************************************)
(* Damage.  Damage is the environment rewriting a container that is still  *)
(* as encrypt_file wrote it: a metadata field dropped or changed, the      *)
(* metadata replaced, the file cut short.                                  *)
(***************************************************************************)
Without(m, k) == [x \in DOMAIN m \ {k} |-> m[x]]

Damages ==
    { "no_algorithm", "no_salt", "no_iv", "no_original_size", "no_original_filename",
      "other_algorithm", "other_size", "text_salt", "number", "not_utf8",
      "short_prefix", "short_metadata", "no_ciphertext", "cut" }

\* More of them: metadata that is no JSON, a prefix that claims one byte
\* more than the file has after it, a flipped bit in the last ciphertext
\* byte, the container an engine with another ITERATIONS writes, and an iv
\* of the wrong size
MoreDamages ==
    { "not_json", "other_algorithm_no_salt", "long_prefix", "flipped", "other_iterations",
      "long_iv" }

OtherIterations == ITERATIONS \div 2

Damaged(data, how) ==
    LET m == JsonLoads(MetadataBytes(data))[2][2]
        ct == Ciphertext(data)
    IN  CASE how = "no_algorithm" -> ContainerBytes(Without(m, "algorithm"), ct)
          [] how = "no_salt" -> ContainerBytes(Without(m, "salt"), ct)
          [] how = "no_iv" -> ContainerBytes(Without(m, "iv"), ct)
          [] how = "no_original_size" -> ContainerBytes(Without(m, "original_size"), ct)
          [] how = "no_original_filename" ->
                ContainerBytes(Without(m, "original_filename"), ct)
          [] how = "other_algorithm" ->
                ContainerBytes([m EXCEPT !["algorithm"] = JStr("AES-128-GCM")], ct)
          [] how = "other_size" ->
                ContainerBytes([m EXCEPT !["original_size"] = JNum(@[2] + 1)], ct)
          [] how = "text_salt" ->
                ContainerBytes([m EXCEPT !["salt"] = JStr("a")], ct)
          [] how = "number" -> ToBytes4(1) \o <<Raw(53)>> \o ct
          [] how = "not_utf8" -> ToBytes4(1) \o <<Raw(255)>> \o ct
          [] how = "short_prefix" -> SubSeq(data, 1, PREFIX_LEN - 1)
          [] how = "short_metadata" -> SubSeq(data, 1, PREFIX_LEN + 2)
          [] how = "no_ciphertext" -> SubSeq(data, 1, Len(data) - Len(ct))
          [] how = "cut" -> SubSeq(data, 1, Len(data) - 1)
          [] how = "not_json" -> ToBytes4(1) \o <<Raw(123)>> \o ct
          [] how = "other_algorithm_no_salt" ->
                ContainerBytes([Without(m, "salt") EXCEPT
                                    !["algorithm"] = JStr("AES-128-GCM")], ct)
          [] how = "long_prefix" ->
                ToBytes4(Len(JsonDumps(m)) + 1) \o JsonDumps(m)
          [] how = "flipped" -> FlipAt(data, Len(ct), 0)
          \* the 32 bytes of the salt where the 16 of the iv should be
          [] how = "long_iv" -> ContainerBytes([m EXCEPT !["iv"] = m["salt"]], ct)
          [] how = "other_iterations" ->
                ContainerBytes([m EXCEPT !["iterations"] = JNum(OtherIterations)],
                               [n \in 1 .. Len(ct) |->
                                    <<"ct", <<"key", ct[n][2][2], ct[n][2][3], OtherIterations>>,
                                      ct[n][3], ct[n][4], ct[n][5], ct[n][6], ct[n][7]>>])

Damage(p, how) ==
    /\ nops < MaxOps
    /\ \E i \in 1 .. Len(made) :
        /\ Exists(fs, p) /\ made[i].path = p /\ fs[p] = File(made[i].data)
        /\ fs' = [fs EXCEPT ![p] = File(Damaged(made[i].data, how))]
        /\ last' = Call("damage", p, "", None, Ok(how), fs, 0)
    /\ nops' = nops + 1
    /\ UNCHANGED <<dirs, rng, made, flips, keyring, running, undo_vars>>

NextVerify ==
    \/ \E p \in ToEncrypt, pw \in Passwords : \E out \in {None, Some(OutBin)} :
            EncryptFile(p, pw, out)
    \/ \E p \in DOMAIN fs, how \in Damages : Damage(p, how)
    \/ \E p \in DOMAIN fs \cup {Missing}, pw \in Passwords : \E g \in Guesses(p, pw) :
            VerifyEncryptedFile(p, pw, g)

SpecVerify == Init /\ [][NextVerify]_vars

(***************************************************************************)
(* Files that encrypt_file did not write.  PutFile is the environment      *)
(* creating one of them.                                                   *)
(***************************************************************************)
JunkBin == Path("d1", <<Word("junk"), Ext("bin")>>)
JunkUpper == Path("d1", <<Word("junk"), Ext("ENCRYPTED")>>)
JunkPaths == {JunkBin, JunkUpper}

\* "hello"
Hello == RawSeq(<<104, 101, 108, 108, 111>>)

JunkEntries ==
    { File(Hello),                                         \* text
      File(RawSeq(<<104, 105>>)),                          \* text, under 4 bytes
      File(ToBytes4(5)),                                   \* a prefix and no more
      File(ToBytes4(0)),
      File(ToBytes4(1) \o RawSeq(<<53>>)),                 \* metadata 5
      File(ToBytes4(2) \o RawSeq(<<34, 34>>)),             \* metadata ""
      File(ToBytes4(2) \o RawSeq(<<91, 93>>)),             \* metadata []
      File(ToBytes4(1) \o RawSeq(<<255>>)),                \* not UTF-8
      File(ToBytes4(1) \o RawSeq(<<123>>)),                \* not JSON
      File(ContainerBytes([algorithm |-> JStr(ALGORITHM)], <<>>)),
      Locked(Hello),
      Folder }

PutFile(p, entry) ==
    /\ nops < MaxOps
    /\ JunkPaths \cap DOMAIN fs = {}
    /\ fs' = [q \in DOMAIN fs \cup {p} |-> IF q = p THEN entry ELSE fs[q]]
    /\ last' = Call("put", p, "", None, Ok(None), fs, 0)
    /\ nops' = nops + 1
    /\ UNCHANGED <<dirs, rng, made, flips, keyring, running, undo_vars>>

NextDetect ==
    \/ \E pw \in Passwords : \E out \in {None, Some(OutBin)} :
            EncryptFile(SourceFile, pw, out)
    \/ \E p \in JunkPaths, entry \in JunkEntries : PutFile(p, entry)
    \/ \E p \in DOMAIN fs \cup {Missing} : IsEncryptedFile(p)

SpecDetect == Init /\ [][NextDetect]_vars

(***************************************************************************)
(* Batches.  The directory holds name.txt, other.txt and a file that       *)
(* cannot be opened.                                                       *)
(***************************************************************************)
OtherFile == Path("d1", <<Word("other"), Ext("txt")>>)
LockedFile == Path("d1", <<Word("locked"), Ext("txt")>>)

InitBatch ==
    /\ \E n \in PlainLengths :
        fs = (SourceFile :> File(Plain(n)) @@ OtherFile :> File(Plain(1))
              @@ LockedFile :> Locked(Plain(1)))
    /\ dirs = {"d1"}
    /\ rng = 0
    /\ made = <<>>
    /\ flips = {}
    /\ keyring = <<>>
    /\ running = <<>>
    /\ last = NoCall
    /\ nops = 0
    /\ UndoManagerInit(DEFAULT_UNDO_LEVELS)

BatchLists ==
    { <<SourceFile, OtherFile, LockedFile>>, <<SourceFile, LockedFile, OtherFile>>,
      <<LockedFile, SourceFile, OtherFile>>, <<OtherFile, SourceFile, LockedFile>>,
      <<OtherFile, LockedFile, SourceFile>>, <<LockedFile, OtherFile, SourceFile>>,
      <<SourceFile, OtherFile>>, <<Missing, SourceFile>> }

\* The paths whose entry the call changed or created
Written(f, after) == {q \in DOMAIN after : q \notin DOMAIN f \/ after[q] # f[q]}

RECURSIVE AsSeq(_)
AsSeq(S) ==
    IF S = {} THEN <<>>
    ELSE LET x == CHOOSE y \in S : TRUE IN <<x>> \o AsSeq(S \ {x})

BatchEncryptFiles(source_paths, password, output_dir) ==
    /\ nops < MaxOps
    /\ \E o \in {batch_encrypt_files(fs, dirs, rng, source_paths, password, output_dir)} :
        /\ fs' = o.fs
        /\ rng' = o.rng
        /\ \E ws \in {AsSeq(Written(fs, o.fs))} :
            made' = made \o
                [k \in 1 .. Len(ws) |->
                    \* the last input written there
                    LET named == {i \in 1 .. Len(source_paths) :
                                    /\ IsFile(fs, source_paths[i])
                                    /\ Name(ws[k]) = Name(source_paths[i])
                                                        \o <<Ext("encrypted")>>}
                        src == source_paths[CHOOSE i \in named : \A j \in named : j <= i]
                    IN  [path |-> ws[k], pw |-> password, src |-> src,
                         plain |-> fs[src].data, data |-> o.fs[ws[k]].data]]
        /\ last' = Call("batch_encrypt_files", source_paths, password, output_dir,
                        o.res, fs, 0)
    /\ dirs' = dirs \cup {output_dir}
    /\ nops' = nops + 1
    /\ UNCHANGED <<flips, keyring, running, undo_vars>>

NextBatch ==
    \E source_paths \in BatchLists, pw \in {"pw1"}, output_dir \in {"d1", "out"} :
        BatchEncryptFiles(source_paths, pw, output_dir)

SpecBatch == InitBatch /\ [][NextBatch]_vars

(***************************************************************************)
(* Containers that encrypt_file wrote and that are still in place.         *)
(***************************************************************************)
\* made[i] is what the file at p held in file system f
Holds(f, p, i) == Exists(f, p) /\ made[i].path = p /\ f[p] = File(made[i].data)

\* The parsed metadata of a container's bytes
MetaOf(data) == JsonLoads(MetadataBytes(data))[2][2]

(***************************************************************************)
(* C1: round trip.  decrypt_file called on a container that encrypt_file   *)
(* wrote, with the password it was written with, returns the path of a     *)
(* file whose bytes are the bytes the source had when it was encrypted.    *)
(***************************************************************************)
C1_RoundTrip ==
    last.op = "decrypt_file" =>
        \A i \in 1 .. Len(made) :
            (Holds(last.pre, last.src, i) /\ last.pw = made[i].pw) =>
                /\ IsOk(last.res)
                /\ Exists(fs, last.res[2])
                /\ fs[last.res[2]] = File(made[i].plain)

C1_Witness ==
    /\ last.op = "decrypt_file"
    /\ IsOk(last.res)
    /\ \E i \in 1 .. Len(made) :
        /\ Holds(last.pre, last.src, i)
        /\ last.pw = made[i].pw
        /\ Len(made[i].plain) = BLOCK + 1
        /\ fs[last.res[2]].data = made[i].plain

Target(call) ==
    IF call.out = None
    THEN Path(Parent(call.src), MetaOf(call.pre[call.src].data)["original_filename"][2])
    ELSE call.out[1]

C3_CollisionAvoidance ==
    (last.op = "decrypt_file" /\ IsOk(last.res)) =>
        /\ ~Exists(last.pre, last.res[2])
        /\ \A p \in DOMAIN last.pre : Exists(fs, p) /\ fs[p] = last.pre[p]
        /\ DOMAIN fs = DOMAIN last.pre \cup {last.res[2]}
        /\ IF ~Exists(last.pre, Target(last)) THEN last.res[2] = Target(last)
           ELSE \E k \in 1 .. Cardinality(DOMAIN last.pre) :
                    /\ last.res[2] = Path(Parent(Target(last)),
                                          Stem(Name(Target(last))) \o <<Counter(k)>>
                                          \o Suffix(Name(Target(last))))
                    /\ \A h \in 1 .. k - 1 :
                            Exists(last.pre,
                                   Path(Parent(Target(last)),
                                        Stem(Name(Target(last))) \o <<Counter(h)>>
                                        \o Suffix(Name(Target(last)))))

\* name.txt and name_1.txt are there, and the decrypt gets name_2.txt
C3_Witness ==
    /\ last.op = "decrypt_file"
    /\ last.out = None
    /\ Exists(last.pre, SourceFile)
    /\ Exists(last.pre, Path("d1", <<Word("name"), Counter(1), Ext("txt")>>))
    /\ last.res = Ok(Path("d1", <<Word("name"), Counter(2), Ext("txt")>>))

(***************************************************************************)
(* C4: salt and IV freshness, the generator returning no value twice.  No  *)
(* two containers encrypt_file has written share a salt, and no two share  *)
(* an IV; two containers made from the same bytes with the same password   *)
(* differ in salt, IV and ciphertext.                                      *)
(***************************************************************************)
SaltOf(data) == B64Decode(MetaOf(data)["salt"])[2]
IvOf(data) == B64Decode(MetaOf(data)["iv"])[2]

C4_SaltIvFresh ==
    \A i, j \in 1 .. Len(made) :
        i # j =>
            /\ SaltOf(made[i].data) # SaltOf(made[j].data)
            /\ IvOf(made[i].data) # IvOf(made[j].data)
            /\ (made[i].plain = made[j].plain /\ made[i].pw = made[j].pw) =>
                    Ciphertext(made[i].data) # Ciphertext(made[j].data)

\* the same file encrypted twice with the same password
C4_Witness ==
    \E i, j \in 1 .. Len(made) :
        /\ i # j
        /\ made[i].src = made[j].src
        /\ made[i].plain = made[j].plain
        /\ made[i].pw = made[j].pw
        /\ Ciphertext(made[i].data) # Ciphertext(made[j].data)

(***************************************************************************)
(* C10: after a successful encrypt_file, whatever output_path              *)
(* was, the source holds its bytes and nothing but the returned path was   *)
(* created or changed.                                                     *)
(***************************************************************************)
SourceKept == Exists(fs, last.src) /\ fs[last.src] = last.pre[last.src]

OnlyOutputWritten ==
    /\ DOMAIN fs = DOMAIN last.pre \cup {last.res[2]}
    /\ \A p \in DOMAIN last.pre : p # last.res[2] => fs[p] = last.pre[p]

C10_SourceUntouched ==
    (last.op = "encrypt_file" /\ IsOk(last.res)) => (SourceKept /\ OnlyOutputWritten)

(***************************************************************************)
(* Calls made with the right password on a container in which one bit of   *)
(* the ciphertext was flipped since encrypt_file wrote it.                 *)
(***************************************************************************)
OnFlipped(t, op) ==
    /\ last.op = op
    /\ last.src = t.path
    /\ last.pre[t.path] = File(t.data)
    /\ last.pw = made[t.of].pw

\* The call tells the flip: decrypt_file fails with the decryption-failure
\* error or recovers a plaintext of another length than original_size, and
\* verify_encrypted_file returns False
Detected(t) ==
    /\ OnFlipped(t, "decrypt_file") =>
            \/ last.res = Err("ValueError", DECRYPT_FAILED)
            \/ /\ IsOk(last.res)
               /\ Len(fs[last.res[2]].data) # Len(made[t.of].plain)
    /\ OnFlipped(t, "verify_encrypted_file") => last.res = Ok(FALSE)

(***************************************************************************)
(* C9 as claimed: tamper detection.  Whatever single bit of the ciphertext *)
(* of a container is flipped, decrypt_file with the right password fails   *)
(* with the decryption-failure error or recovers a plaintext whose length  *)
(* differs from original_size, and verify_encrypted_file returns False.    *)
(***************************************************************************)
C9_TamperDetected == \A t \in flips : Detected(t)

(***************************************************************************)
(* C9 as amended: the same, for a flipped bit in the last byte of the      *)
(* next-to-last ciphertext block (the byte that CBC XORs into the final    *)
(* padding byte).                                                          *)
(***************************************************************************)
C9_PaddingByteTamperDetected ==
    \A t \in flips :
        t.n = Len(Ciphertext(t.data)) - BLOCK => Detected(t)

C9_Witness ==
    \E t \in flips :
        /\ t.n = Len(Ciphertext(t.data)) - BLOCK
        /\ t.bit = 0
        /\ OnFlipped(t, "decrypt_file")
        /\ Len(made[t.of].plain) = BLOCK + 1
        /\ IsOk(last.res)
        /\ Len(fs[last.res[2]].data) = BLOCK + 2

(***************************************************************************)
(* What verify_encrypted_file is said to accept, stated on the file: the   *)
(* file at p parses as a container, and the buffer the cipher gives under  *)
(* the password unpads without error.                                      *)
(***************************************************************************)
ParsesAsContainer(f, p) ==
    /\ IsFile(f, p)
    /\ f[p].readable
    /\ Len(f[p].data) >= PREFIX_LEN
    /\ IsOk(JsonLoads(MetadataBytes(f[p].data)))
    /\ IsDict(JsonLoads(MetadataBytes(f[p].data))[2])
    /\ {"salt", "iv"} \subseteq DOMAIN MetaOf(f[p].data)
    /\ IsOk(B64Decode(MetaOf(f[p].data)["salt"]))
    /\ IsOk(B64Decode(MetaOf(f[p].data)["iv"]))
    /\ IvOk(IvOf(f[p].data))

AlgorithmIsAes(f, p) ==
    /\ "algorithm" \in DOMAIN MetaOf(f[p].data)
    /\ MetaOf(f[p].data)["algorithm"] = JStr(ALGORITHM)

\* The length of what the full decrypt and unpad recover, -1 when either
\* fails
RecoveredLength(f, p, password, g) ==
    LET buffer == CbcDecrypt(DeriveKey(password, SaltOf(f[p].data)), IvOf(f[p].data),
                             Ciphertext(f[p].data), g)
    IN  IF IsErr(buffer) THEN -1
        ELSE IF buffer[2] = <<>> THEN 0
        ELSE IF ByteVal(buffer[2][Len(buffer[2])]) > BLOCK THEN -1
        ELSE IF ByteVal(buffer[2][Len(buffer[2])]) = 0 THEN 0
        ELSE Len(buffer[2]) - ByteVal(buffer[2][Len(buffer[2])])

TextBytes == {9, 10, 13} \cup (32 .. 126)
IsText(data) == \A i \in 1 .. Len(data) : IsRaw(data[i]) /\ data[i][2] \in TextBytes

IsPrefixAlone(data) ==
    /\ Len(data) = PREFIX_LEN
    /\ \A i \in 1 .. Len(data) : IsRaw(data[i])
    /\ FromBytes4(data) > 0

(***************************************************************************)
(* C6 as claimed: detection heuristic.  is_encrypted_file returns True on  *)
(* every container as encrypt_file wrote it, whatever its name, and False  *)
(* on every text file and on every 4-byte file whose length prefix is      *)
(* larger than what follows it.                                            *)
(***************************************************************************)
C6_Detection ==
    last.op = "is_encrypted_file" =>
        /\ (\E i \in 1 .. Len(made) : Holds(last.pre, last.src, i)) => last.res = Ok(TRUE)
        /\ (IsFile(last.pre, last.src) /\ IsText(last.pre[last.src].data))
                => last.res = Ok(FALSE)
        /\ (IsFile(last.pre, last.src) /\ IsPrefixAlone(last.pre[last.src].data))
                => last.res = Ok(FALSE)

(***************************************************************************)
(* C6 as amended: True on every container as encrypt_file wrote it,        *)
(* whatever its name; False on every text file and every 4-byte file with  *)
(* a non-zero prefix whose name does not end in .encrypted (in any case of *)
(* the letters), and True on those whose name does.                        *)
(***************************************************************************)
NamedEncrypted(p) == SuffixLower(Name(p)) = <<Ext("encrypted")>>

C6_DetectionByNameThenContent ==
    last.op = "is_encrypted_file" =>
        /\ (\E i \in 1 .. Len(made) : Holds(last.pre, last.src, i)) => last.res = Ok(TRUE)
        /\ (/\ IsFile(last.pre, last.src)
            /\ \/ IsText(last.pre[last.src].data)
               \/ IsPrefixAlone(last.pre[last.src].data))
                => last.res = Ok(NamedEncrypted(last.src))

\* True on a container that encrypt_file wrote to out.bin
C6_Witness ==
    /\ last.op = "is_encrypted_file"
    /\ last.src = OutBin
    /\ last.res = Ok(TRUE)
    /\ \E i \in 1 .. Len(made) : Holds(last.pre, last.src, i)

(***************************************************************************)
(* C7: is_encrypted_file never propagates an error: whatever the path      *)
(* holds, it returns a boolean.                                            *)
(***************************************************************************)
C7_IsEncryptedTotal ==
    last.op = "is_encrypted_file" => last.res \in {Ok(TRUE), Ok(FALSE)}

(***************************************************************************)
(* C5: batch isolation.  batch_encrypt_files returns, and for every entry  *)
(* of the list that is a readable file it has written a container to       *)
(* output_dir/<name>.encrypted and returned that path, whatever the other  *)
(* entries are.                                                            *)
(***************************************************************************)
C5_BatchIsolation ==
    last.op = "batch_encrypt_files" =>
        \A k \in 1 .. Len(last.src) :
            (IsFile(last.pre, last.src[k]) /\ last.pre[last.src[k]].readable) =>
                /\ IsOk(last.res)
                /\ \E q \in {Path(last.out, Name(last.src[k]) \o <<Ext("encrypted")>>)} :
                    /\ q \in Written(last.pre, fs)
                    /\ \E j \in 1 .. Len(last.res[2]) : last.res[2][j] = q

(***************************************************************************)
(* The credential store.  encrypt_file with its store_password argument:   *)
(* what it returns or raises, and the calls it makes to                    *)
(* keyring.set_password.  raises says whether the keyring raises.          *)
(***************************************************************************)
\* _store_password that lets the exception of the keyring through
StorePasswordRaising(identifier, password, raises) ==
    IF raises THEN Err("KeyringError", "set_password") ELSE Ok(None)

\* _store_password: keyring.set_password inside try/except Exception
StorePassword(identifier, password, raises) == Ok(None)

encrypt_file_storing(f, d, r, source_path, password, output_arg, store_password, raises) ==
    LET written == encrypt_file(f, d, r, source_path, password, output_arg)
    IN  IF IsErr(written.res) \/ ~store_password THEN [out |-> written, calls |-> <<>>]
        ELSE
        LET stored == StorePassword(Name(source_path), password, raises)
        IN  [ out |-> IF IsErr(stored) THEN Outcome(stored, written.fs, written.rng)
                      ELSE written,
              calls |-> << [ identifier |-> Name(source_path), password |-> password,
                             raised |-> raises, fs |-> written.fs ] >> ]

EncryptFileStoring(source_path, password, output_arg, store_password, raises) ==
    /\ nops < MaxOps
    /\ \E o \in {encrypt_file_storing(fs, dirs, rng, source_path, password, output_arg,
                                      store_password, raises)} :
           /\ fs' = o.out.fs
           /\ rng' = o.out.rng
           /\ made' = IF source_path \in DOMAIN fs /\ o.out.fs # fs
                      THEN Append(made, [path |-> (CHOOSE q \in Written(fs, o.out.fs) : TRUE),
                                         pw |-> password,
                                         src |-> source_path,
                                         plain |-> fs[source_path].data,
                                         data |-> o.out.fs[CHOOSE q \in Written(fs, o.out.fs) :
                                                              TRUE].data])
                      ELSE made
           /\ keyring' = keyring \o [k \in 1 .. Len(o.calls) |->
                                        [call |-> nops + 1] @@ o.calls[k]]
           /\ last' = Call("encrypt_file", source_path, password, output_arg, o.out.res,
                           fs, 0)
                      @@ [store_password |-> store_password, raises |-> raises]
    /\ nops' = nops + 1
    /\ UNCHANGED <<dirs, flips, running, undo_vars>>

NextStore ==
    \/ \E p \in {SourceFile, Missing}, pw \in {"pw1"} :
         \E out \in {None, Some(OutBin)}, store_password \in BOOLEAN :
           \E raises \in IF store_password THEN BOOLEAN ELSE {FALSE} :
              EncryptFileStoring(p, pw, out, store_password, raises)
    \/ \E p \in ToDecrypt \cup {Missing}, pw \in Passwords : \E g \in Guesses(p, pw) :
            DecryptFile(p, pw, None, g)

SpecStore == Init /\ [][NextStore]_vars

(***************************************************************************)
(* C11: missing input.  encrypt_file on a source path that does not exist  *)
(* and decrypt_file on an encrypted path that does not exist raise         *)
(* FileNotFoundError and do nothing else: no file is created or changed,   *)
(* no salt or IV is drawn and keyring.set_password is not called.          *)
(***************************************************************************)
C11_MissingInput ==
    [][ (/\ nops' = nops + 1
         /\ last'.op \in {"encrypt_file", "decrypt_file"}
         /\ last'.src \notin DOMAIN fs)
        => /\ last'.res = Err("FileNotFoundError",
                              IF last'.op = "encrypt_file" THEN "Source file not found"
                              ELSE "Encrypted file not found")
           /\ fs' = fs
           /\ rng' = rng
           /\ made' = made
           /\ keyring' = keyring ]_vars

\* encrypt_file with store_password set, on a path that does not exist
C11_Witness ==
    /\ last.op = "encrypt_file"
    /\ last.src = Missing
    /\ last.store_password
    /\ last.res = Err("FileNotFoundError", "Source file not found")
    /\ keyring = <<>>
    /\ DOMAIN fs = {SourceFile}

(***************************************************************************)
(* C17: the credential store is non-fatal.  encrypt_file on a readable     *)
(* source returns the output path with the container written there,        *)
(* whether or not the keyring raises.  It calls keyring.set_password once  *)
(* when store_password is set and the container is written, with the       *)
(* source's base name and the password, after the container is written,    *)
(* and not at all otherwise.                                               *)
(***************************************************************************)
StoredByLastCall == {k \in 1 .. Len(keyring) : keyring[k].call = nops}

C17_StoreNonFatal ==
    (last.op = "encrypt_file" /\ "store_password" \in DOMAIN last) =>
        /\ (IsFile(last.pre, last.src) /\ last.pre[last.src].readable) =>
                /\ IsOk(last.res)
                /\ made[Len(made)].path = last.res[2]
                /\ fs[last.res[2]] = File(made[Len(made)].data)
                /\ IsOk(JsonLoads(MetadataBytes(fs[last.res[2]].data)))
                /\ Len(Ciphertext(fs[last.res[2]].data)) % BLOCK = 0
                /\ Len(Ciphertext(fs[last.res[2]].data)) > Len(made[Len(made)].plain)
        /\ Cardinality(StoredByLastCall) <= 1
        /\ (StoredByLastCall # {}) <=> (last.store_password /\ IsOk(last.res))
        /\ \A k \in StoredByLastCall :
                /\ keyring[k].identifier = Name(last.src)
                /\ keyring[k].password = last.pw
                /\ keyring[k].fs = fs

\* The keyring raised and encrypt_file returned the path all the same
C17_Witness ==
    /\ last.op = "encrypt_file"
    /\ last.store_password
    /\ last.raises
    /\ last.res = Ok(OutBin)
    /\ StoredByLastCall # {}
    /\ keyring[Len(keyring)].raised

(***************************************************************************)
(* decrypt_file called on whatever the directory holds: containers as      *)
(* written, damaged ones, the plaintext itself.                            *)
(***************************************************************************)
NextFormat ==
    \/ \E pw \in {"pw1"} : EncryptFile(SourceFile, pw, None)
    \/ \E p \in DOMAIN fs, how \in Damages \cup MoreDamages : Damage(p, how)
    \/ \E p \in DOMAIN fs, pw \in Passwords : \E g \in Guesses(p, pw) :
         \E out \in {None, Some(OutBin)} : DecryptFile(p, pw, out, g)

SpecFormat == Init /\ [][NextFormat]_vars

(***************************************************************************)
(* Files whose metadata reads as a JSON object, and the containers of made *)
(* as the environment damaged them.                                        *)
(***************************************************************************)
HasMetadataObject(f, p) ==
    /\ IsFile(f, p)
    /\ f[p].readable
    /\ Len(f[p].data) >= PREFIX_LEN
    /\ IsOk(JsonLoads(MetadataBytes(f[p].data)))
    /\ IsDict(JsonLoads(MetadataBytes(f[p].data))[2])

IsDamaged(f, p, how) ==
    /\ Exists(f, p)
    /\ \E i \in 1 .. Len(made) : f[p] = File(Damaged(made[i].data, how))

(***************************************************************************)
(* C12: unsupported algorithm.  decrypt_file on a file whose metadata is   *)
(* an object with an algorithm other than 'AES-256-CBC', or with none,     *)
(* raises the unsupported-algorithm error whatever the password and        *)
(* whatever else the metadata and the ciphertext hold (the salt may be     *)
(* missing: no key is derived), and writes no file.                        *)
(***************************************************************************)
C12_UnsupportedAlgorithm ==
    (/\ last.op = "decrypt_file"
     /\ HasMetadataObject(last.pre, last.src)
     /\ ~AlgorithmIsAes(last.pre, last.src))
    => /\ last.res = Err("ValueError", "Unsupported encryption algorithm")
       /\ fs = last.pre

\* The algorithm is another one and the salt is missing
C12_Witness ==
    /\ last.op = "decrypt_file"
    /\ IsDamaged(last.pre, last.src, "other_algorithm_no_salt")
    /\ last.res = Err("ValueError", "Unsupported encryption algorithm")

IsFormatError(res) ==
    \/ res = Err("ValueError", "Invalid encrypted file format")
    \/ res = Err("ValueError", "Invalid metadata in encrypted file")

\* The length prefix of the file claims more bytes than follow it
PrefixClaimsMore(f, p) ==
    /\ IsFile(f, p)
    /\ f[p].readable
    /\ Len(f[p].data) >= PREFIX_LEN
    /\ \A i \in 1 .. PREFIX_LEN : IsRaw(f[p].data[i])
    /\ FromBytes4(MetadataLengthBytes(f[p].data)) > Len(f[p].data) - PREFIX_LEN

(***************************************************************************)
(* C14: truncated metadata.  decrypt_file on a file whose length prefix    *)
(* claims N metadata bytes while fewer than N follow it raises a format    *)
(* error, whatever the bytes that are there, and writes no file.           *)
(***************************************************************************)
C14_TruncatedMetadata ==
    (last.op = "decrypt_file" /\ PrefixClaimsMore(last.pre, last.src))
    => /\ IsFormatError(last.res)
       /\ fs = last.pre

(***************************************************************************)
(* C15: missing required field.  decrypt_file on a file whose metadata     *)
(* does not decode as JSON, or decodes to an object without algorithm,     *)
(* salt, iv or original_filename, raises the format error (a ValueError),  *)
(* with and without output_path, and writes no file.                       *)
(***************************************************************************)
LacksRequiredField(f, p) ==
    /\ HasMetadataObject(f, p)
    /\ \E field \in {"algorithm", "salt", "iv", "original_filename"} :
            field \notin DOMAIN MetaOf(f[p].data)

MetadataUndecodable(f, p) ==
    /\ IsFile(f, p)
    /\ f[p].readable
    /\ Len(f[p].data) >= PREFIX_LEN
    /\ IsErr(JsonLoads(MetadataBytes(f[p].data)))

C15_MissingField ==
    (/\ last.op = "decrypt_file"
     /\ \/ MetadataUndecodable(last.pre, last.src)
        \/ LacksRequiredField(last.pre, last.src))
    => /\ IsFormatError(last.res)
       /\ fs = last.pre

(***************************************************************************)
(* C16: stored KDF parameters.  decrypt_file, given the right password,    *)
(* recovers the plaintext of a container that was written with another     *)
(* iteration count than the engine's ITERATIONS (the count is in the       *)
(* container's metadata).                                                  *)
(***************************************************************************)
C16_StoredIterations ==
    last.op = "decrypt_file" =>
        \A i \in 1 .. Len(made) :
            (/\ Exists(last.pre, last.src)
             /\ last.pre[last.src] = File(Damaged(made[i].data, "other_iterations"))
             /\ last.pw = made[i].pw)
            => /\ IsOk(last.res)
               /\ fs[last.res[2]] = File(made[i].plain)

(***************************************************************************)
(* Concurrent calls.  Each thread runs one encrypt_file or decrypt_file    *)
(* call in steps: the part up to the first use of the output path in one   *)
(* step, then every output_path.exists() test and the write as steps of    *)
(* their own, so that the steps of two threads interleave.  No two calls   *)
(* that run together have the same input file.                             *)
(***************************************************************************)
Threads == {1, 2}

Idle ==
    [pc |-> "idle", op |-> "none", src |-> None, pw |-> "", out |-> None, g |-> 0,
     path |-> None, data |-> <<>>, plain |-> <<>>, counter |-> 0, base_name |-> <<>>,
     extension |-> <<>>, res |-> Ok(None)]

\* decrypt_file up to the output path it wants: that path and the
\* plaintext, or the error raised
decrypt_read(f, encrypted_path, password, output_arg, g) ==
    IF IsMissing(f, encrypted_path)
    THEN Err("FileNotFoundError", "Encrypted file not found")
    ELSE
    LET source == OpenRead(f, encrypted_path)
    IN  IF IsErr(source) THEN source
        ELSE IF Len(MetadataLengthBytes(source[2])) # PREFIX_LEN
        THEN Err("ValueError", "Invalid encrypted file format")
        ELSE
        LET parsed == JsonLoads(MetadataBytes(source[2]))
        IN  IF IsErr(parsed) THEN Err("ValueError", "Invalid metadata in encrypted file")
            ELSE IF ~IsDict(parsed[2]) THEN Err("AttributeError", "get")
            ELSE IF ~AlgorithmSupported(parsed[2])
            THEN Err("ValueError", "Unsupported encryption algorithm")
            ELSE
            LET salt == MetaBytes(parsed[2], "salt")
                iv == MetaBytes(parsed[2], "iv")
            IN  IF IsErr(salt) THEN salt
                ELSE IF IsErr(iv) THEN iv
                ELSE IF ~IvOk(iv[2]) THEN Err("ValueError", "Invalid IV size")
                ELSE
                LET plaintext == DecryptAndUnpad(DeriveKey(password, salt[2]), iv[2],
                                                 Ciphertext(source[2]), g)
                IN  IF IsErr(plaintext) THEN DecryptionFailure(plaintext)
                    ELSE IF output_arg # None THEN Ok(<<output_arg[1], plaintext[2]>>)
                    ELSE IF "original_filename" \notin DOMAIN parsed[2][2]
                    THEN Err("KeyError", "original_filename")
                    ELSE IF parsed[2][2]["original_filename"][1] # "name"
                    THEN Err("TypeError", "original_filename")
                    ELSE Ok(<<Path(Parent(encrypted_path),
                                   parsed[2][2]["original_filename"][2]), plaintext[2]>>)

\* encrypt_file up to the write: the output path and the container's
\* bytes, or the error raised
encrypt_read(f, r, source_path, password, output_arg) ==
    IF IsMissing(f, source_path) THEN Err("FileNotFoundError", "Source file not found")
    ELSE
    LET source == OpenRead(f, source_path)
        ciphertext == CbcEncrypt(DeriveKey(password, NewSalt(r)), NewIv(r),
                                 PadData(source[2]))
    IN  IF IsErr(source) THEN source
        ELSE Ok(<< IF output_arg = None THEN DefaultOutput(source_path) ELSE output_arg[1],
                   ContainerBytes(Metadata(Name(source_path), source[2], ciphertext,
                                           NewSalt(r), NewIv(r)), ciphertext) >>)

InputFree(t, p) == \A u \in Threads \ {t} : running[u].pc = "idle" \/ running[u].src # p

\* The thread's locals after that part: the path it will test or write, the
\* bytes it will write, the plaintext they stand for
Begun(op, src, pw, out, g, read, plain, pc) ==
    IF IsErr(read)
    THEN [pc |-> "done", op |-> op, src |-> src, pw |-> pw, out |-> out, g |-> g,
          path |-> None, data |-> <<>>, plain |-> <<>>, counter |-> 0,
          base_name |-> <<>>, extension |-> <<>>, res |-> read]
    ELSE [pc |-> pc, op |-> op, src |-> src, pw |-> pw, out |-> out, g |-> g,
          path |-> read[2][1], data |-> read[2][2], plain |-> plain, counter |-> 0,
          base_name |-> <<>>, extension |-> <<>>, res |-> Ok(None)]

BeginDecrypt(t, encrypted_path, password, output_arg, g) ==
    /\ nops < MaxOps
    /\ running[t].pc = "idle"
    /\ InputFree(t, encrypted_path)
    /\ \E read \in {decrypt_read(fs, encrypted_path, password, output_arg, g)} :
        running' = [running EXCEPT ![t] =
            Begun("decrypt_file", encrypted_path, password, output_arg, g, read,
                  IF IsErr(read) THEN <<>> ELSE read[2][2], "exists")]
    /\ nops' = nops + 1
    /\ UNCHANGED <<fs, dirs, rng, made, flips, last, keyring, undo_vars>>

BeginEncrypt(t, source_path, password, output_arg) ==
    /\ nops < MaxOps
    /\ running[t].pc = "idle"
    /\ InputFree(t, source_path)
    /\ \E read \in {encrypt_read(fs, rng, source_path, password, output_arg)} :
        running' = [running EXCEPT ![t] =
            Begun("encrypt_file", source_path, password, output_arg, 0, read,
                  IF IsErr(read) THEN <<>> ELSE fs[source_path].data, "write")]
    /\ rng' = IF IsMissing(fs, source_path) THEN rng ELSE rng + 2
    /\ nops' = nops + 1
    /\ UNCHANGED <<fs, dirs, made, flips, last, keyring, undo_vars>>

\* if output_path.exists(): counter = 1; base_name = ...; extension = ...
CheckExists(t) ==
    /\ running[t].pc = "exists"
    /\ \E th \in {running[t]} :
        running' = [running EXCEPT ![t] =
            IF Exists(fs, th.path)
            THEN [th EXCEPT !.pc = "loop", !.counter = 1,
                            !.base_name = Stem(Name(th.path)),
                            !.extension = Suffix(Name(th.path))]
            ELSE [th EXCEPT !.pc = "write"]]
    /\ UNCHANGED <<fs, dirs, rng, made, flips, last, nops, keyring, undo_vars>>

\* while output_path.exists(): output_path = ...; counter += 1
LoopExists(t) ==
    /\ running[t].pc = "loop"
    /\ \E th \in {running[t]} :
        running' = [running EXCEPT ![t] =
            IF Exists(fs, th.path)
            THEN [th EXCEPT !.path = Candidate(Parent(th.path), th.base_name, th.counter,
                                               th.extension),
                            !.counter = th.counter + 1]
            ELSE [th EXCEPT !.pc = "write"]]
    /\ UNCHANGED <<fs, dirs, rng, made, flips, last, nops, keyring, undo_vars>>

\* with open(output_path, 'wb') as f: f.write(...); return output_path
WriteOutput(t) ==
    /\ running[t].pc = "write"
    /\ \E written \in {OpenWrite(fs, dirs, running[t].path, running[t].data)} :
        /\ fs' = IF IsErr(written) THEN fs ELSE written[2]
        /\ \E res \in {IF IsErr(written) THEN written ELSE Ok(running[t].path)} :
            /\ running' = [running EXCEPT ![t] = [running[t] EXCEPT !.pc = "done", !.res = res]]
            /\ last' = Call(running[t].op, running[t].src, running[t].pw, running[t].out,
                            res, fs, running[t].g)
        /\ made' = IF IsOk(written) /\ running[t].op = "encrypt_file"
                   THEN Append(made, [path |-> running[t].path, pw |-> running[t].pw,
                                      src |-> running[t].src,
                                      plain |-> running[t].plain,
                                      data |-> running[t].data])
                   ELSE made
    /\ UNCHANGED <<dirs, rng, flips, nops, keyring, undo_vars>>

\* The call is over; the thread may make another
Return(t) ==
    /\ running[t].pc = "done"
    /\ running' = [running EXCEPT ![t] = Idle]
    /\ UNCHANGED <<fs, dirs, rng, made, flips, last, nops, keyring, undo_vars>>

\* The directory holds other.txt and two containers of name.txt, written by
\* encrypt_file when name.txt had n bytes and, to out.bin, when it had m
InitConcurrent ==
    /\ \E n \in {1}, m \in {1, 16} :
        \E a \in {encrypt_file(SourceFile :> File(Plain(n)) @@ OtherFile :> File(Plain(1)),
                               {"d1"}, 0, SourceFile, "pw1", None)} :
        \E b \in {encrypt_file([a.fs EXCEPT ![SourceFile] = File(Plain(m))],
                               {"d1"}, a.rng, SourceFile, "pw1", Some(OutBin))} :
            /\ fs = b.fs
            /\ rng = b.rng
            /\ made = << [path |-> a.res[2], pw |-> "pw1", src |-> SourceFile,
                          plain |-> Plain(n), data |-> a.fs[a.res[2]].data],
                         [path |-> b.res[2], pw |-> "pw1", src |-> SourceFile,
                          plain |-> Plain(m), data |-> b.fs[b.res[2]].data] >>
    /\ dirs = {"d1"}
    /\ flips = {}
    /\ keyring = <<>>
    /\ running = [t \in Threads |-> Idle]
    /\ last = NoCall
    /\ nops = 0
    /\ UndoManagerInit(DEFAULT_UNDO_LEVELS)

NextConcurrent ==
    \E t \in Threads :
        \/ \E p \in {DefaultOutput(SourceFile), OutBin, Missing} :
             BeginDecrypt(t, p, "pw1", None, 0)
        \/ BeginEncrypt(t, OtherFile, "pw1", None)
        \/ CheckExists(t)
        \/ LoopExists(t)
        \/ WriteOutput(t)
        \/ Return(t)

SpecConcurrent == InitConcurrent /\ [][NextConcurrent]_vars

\* C18: when encrypt_file and decrypt_file calls run together on pairwise
\* distinct input files, every call that returns a path returns one whose
\* file holds the bytes that call wrote, and no two calls that have
\* returned hold the same path.
C18_ConcurrentCallsApart ==
    \A t \in Threads :
        (running[t].pc = "done" /\ IsOk(running[t].res)) =>
            /\ Exists(fs, running[t].res[2])
            /\ fs[running[t].res[2]] = File(running[t].data)
            /\ \A u \in Threads \ {t} :
                    (running[u].pc = "done" /\ IsOk(running[u].res))
                    => running[u].res[2] # running[t].res[2]

(***************************************************************************)
(* EncryptionEngine.verify_password: everything inside one try/except      *)
(* Exception that returns False.                                           *)
(***************************************************************************)
TEST_DATA_SIZE == 32

\* The test data decrypted to the end and unpadded, as decrypt_file does
DecryptorFinalizeUnpad(key, iv, test_data, g) == DecryptAndUnpad(key, iv, test_data, g)

\* decryptor.update(test_data): the whole blocks decrypted, the rest kept
\* for a finalize() that is never called
DecryptorUpdate(key, iv, test_data, g) == Ok(DecryptFrom(test_data, 1, key, iv, g))

verify_password(f, encrypted_path, password, g) ==
    LET source == OpenRead(f, encrypted_path)
    IN  IF IsErr(source) THEN Ok(FALSE)
        ELSE IF Len(MetadataLengthBytes(source[2])) # PREFIX_LEN THEN Ok(FALSE)
        ELSE
        LET parsed == JsonLoads(MetadataBytes(source[2]))
        IN  IF IsErr(parsed) THEN Ok(FALSE)
            ELSE
            LET salt == MetaBytes(parsed[2], "salt")
                iv == MetaBytes(parsed[2], "iv")
            IN  IF IsErr(salt) \/ IsErr(iv) THEN Ok(FALSE)
                ELSE IF ~IvOk(iv[2]) THEN Ok(FALSE)
                ELSE
                LET ciphertext == Ciphertext(source[2])
                    test_data == SubSeq(ciphertext, 1, Min(TEST_DATA_SIZE, Len(ciphertext)))
                IN  IF Len(test_data) > 0
                       /\ IsErr(DecryptorUpdate(DeriveKey(password, salt[2]), iv[2],
                                                test_data, g))
                    THEN Ok(FALSE)
                    ELSE Ok(TRUE)

VerifyPassword(encrypted_path, password, g) ==
    /\ nops < MaxOps
    /\ last' = Call("verify_password", encrypted_path, password, None,
                    verify_password(fs, encrypted_path, password, g), fs, g)
    /\ nops' = nops + 1
    /\ UNCHANGED <<fs, dirs, rng, made, flips, keyring, running, undo_vars>>

NextPassword ==
    \/ \E pw \in {"pw1"} : EncryptFile(SourceFile, pw, None)
    \/ \E p \in DOMAIN fs, how \in Damages \cup MoreDamages : Damage(p, how)
    \/ \E p \in DOMAIN fs \cup {Missing}, pw \in Passwords : \E g \in Guesses(p, pw) :
            VerifyPassword(p, pw, g)

SpecPassword == Init /\ [][NextPassword]_vars

\* C19: for a container as encrypt_file wrote it with password pw,
\* verify_password returns true when called with pw and false when called
\* with any other password.
C19_PasswordTold ==
    last.op = "verify_password" =>
        \A i \in 1 .. Len(made) :
            (/\ Exists(last.pre, last.src)
             /\ made[i].path = last.src
             /\ last.pre[last.src] = File(made[i].data))
            => (last.res = Ok(TRUE) <=> last.pw = made[i].pw)

\* C20: verify_password answers true or false; it answers true whenever
\* verify_encrypted_file does on the same file and password, and on every
\* readable file whose metadata is a JSON object with a base64 salt and a
\* 16-byte base64 iv, whatever the algorithm field, the size field, the
\* padding or the password.
C20_WeakerCheck ==
    last.op = "verify_password" =>
        /\ last.res \in {Ok(TRUE), Ok(FALSE)}
        /\ (\E g \in GarbageBytes :
                verify_encrypted_file(last.pre, last.src, last.pw, g) = Ok(TRUE))
           => last.res = Ok(TRUE)
        /\ (Exists(last.pre, last.src) /\ ParsesAsContainer(last.pre, last.src))
           => last.res = Ok(TRUE)

\* verify_password and verify_encrypted_file both answer true: the right
\* password on a container of 17 bytes as written
C20_Witness ==
    /\ last.op = "verify_password"
    /\ last.res = Ok(TRUE)
    /\ last.pw = "pw1"
    /\ Len(made) = 1
    /\ Len(made[1].plain) = 17
    /\ last.pre[last.src] = File(made[1].data)
    /\ verify_encrypted_file(last.pre, last.src, last.pw, last.g) = Ok(TRUE)

\* The padded byte that ciphertext unit n of a container stands for
PaddedByte(data, n) == Ciphertext(data)[n][6]

\* C21: every container encrypt_file wrote for a plaintext of n bytes has a
\* ciphertext of 16 * (n div 16 + 1) bytes, a positive multiple of 16, made
\* of the plaintext followed by p = 16 - (n mod 16) bytes of value p;
\* metadata.original_size is n and metadata.encrypted_size is the length of
\* the ciphertext.
C21_PaddingAndSizes ==
    \A i \in 1 .. Len(made) :
        LET n == Len(made[i].plain)
            p == BLOCK - (n % BLOCK)
            ct == Ciphertext(made[i].data)
        IN  /\ Len(ct) = BLOCK * ((n \div BLOCK) + 1)
            /\ Len(ct) > 0 /\ Len(ct) % BLOCK = 0
            /\ Len(ct) = n + p
            /\ \A k \in 1 .. n : PaddedByte(made[i].data, k) = made[i].plain[k]
            /\ \A k \in n + 1 .. n + p : PaddedByte(made[i].data, k) = Raw(p)
            /\ MetaOf(made[i].data)["original_size"] = JNum(n)
            /\ MetaOf(made[i].data)["encrypted_size"] = JNum(Len(ct))

\* A container of a 16-byte plaintext: a full block of padding, 32 bytes
C21_Witness ==
    /\ last.op = "encrypt_file"
    /\ IsOk(last.res)
    /\ Len(made) >= 1
    /\ Len(made[Len(made)].plain) = BLOCK
    /\ Len(Ciphertext(made[Len(made)].data)) = 2 * BLOCK
    /\ PaddedByte(made[Len(made)].data, 2 * BLOCK) = Raw(BLOCK)

\* The buffer the cipher hands to _unpad_data when the file at p is
\* decrypted with password and the unpredictable bytes take the value g
DecryptedBuffer(f, p, password, g) ==
    CbcDecrypt(DeriveKey(password, SaltOf(f[p].data)), IvOf(f[p].data),
               Ciphertext(f[p].data), g)

\* That buffer ends in a byte that is 0 or more than 16
BadLastByte(f, p, password, g) ==
    /\ Exists(f, p)
    /\ ParsesAsContainer(f, p)
    /\ AlgorithmIsAes(f, p)
    /\ \E buffer \in {DecryptedBuffer(f, p, password, g)} :
        /\ IsOk(buffer)
        /\ buffer[2] # <<>>
        /\ \/ ByteVal(buffer[2][Len(buffer[2])]) = 0
           \/ ByteVal(buffer[2][Len(buffer[2])]) > BLOCK

\* C22: when the decrypted buffer ends in a byte that is 0 or more than 16,
\* decrypt_file raises the decryption-failure error and writes nothing, and
\* verify_encrypted_file returns false.
C22_UnpadBounds ==
    (last.op \in {"decrypt_file", "verify_encrypted_file"}
        /\ BadLastByte(last.pre, last.src, last.pw, last.g))
    => IF last.op = "decrypt_file"
       THEN last.res = Err("ValueError", DECRYPT_FAILED) /\ fs = last.pre
       ELSE last.res = Ok(FALSE)

\* The ciphertext of the file at p is not a whole number of blocks
Misaligned(f, p) ==
    /\ Exists(f, p)
    /\ ParsesAsContainer(f, p)
    /\ AlgorithmIsAes(f, p)
    /\ Len(Ciphertext(f[p].data)) % BLOCK # 0

\* C23: decrypt_file called on a container whose ciphertext length is not
\* a multiple of 16 raises the decryption-failure error, the one a wrong
\* password gives, whatever the password, and writes nothing.
C23_MisalignedFails ==
    (last.op = "decrypt_file" /\ Misaligned(last.pre, last.src))
    => /\ last.res = Err("ValueError", DECRYPT_FAILED)
       /\ fs = last.pre

\* C23 as stated: the error is the format error, not the decryption failure.
C23_MisalignedIsFormatError ==
    (last.op = "decrypt_file" /\ Misaligned(last.pre, last.src))
    => /\ last.res = Err("ValueError", "Invalid encrypted file format")
       /\ fs = last.pre

\* the right password on a container that lost its last byte
C23_Witness ==
    /\ last.op = "decrypt_file"
    /\ Len(made) = 1
    /\ last.pw = made[1].pw
    /\ Exists(last.pre, last.src)
    /\ last.pre[last.src] = File(Damaged(made[1].data, "cut"))
    /\ Misaligned(last.pre, last.src)
    /\ last.res = Err("ValueError", DECRYPT_FAILED)

(***************************************************************************)
(* Directories where the names decrypt_file would take are taken: beside   *)
(* name.txt there are name_1.txt .. name_k.txt.                            *)
(***************************************************************************)
Numbered(k) == Path("d1", <<Word("name"), Counter(k), Ext("txt")>>)

InitCollide ==
    /\ \E n \in PlainLengths, k \in 0 .. CandidateCap + 1 :
        fs = [p \in {SourceFile} \cup {Numbered(h) : h \in 1 .. k} |->
                IF p = SourceFile THEN File(Plain(n)) ELSE File(Hello)]
    /\ dirs = {"d1"}
    /\ rng = 0
    /\ made = <<>>
    /\ flips = {}
    /\ keyring = <<>>
    /\ running = <<>>
    /\ last = NoCall
    /\ nops = 0
    /\ UndoManagerInit(DEFAULT_UNDO_LEVELS)

NextCollide ==
    \/ EncryptFile(SourceFile, "pw1", None)
    \/ \E p \in ToDecrypt, pw \in Passwords : \E g \in Guesses(p, pw) :
            DecryptFile(p, pw, None, g)

SpecCollide == InitCollide /\ [][NextCollide]_vars

\* The target of the call and its candidates _1 .. _CandidateCap all exist
AllTaken(call) ==
    /\ Exists(call.pre, Target(call))
    /\ \A h \in 1 .. CandidateCap :
            Exists(call.pre, Candidate(Parent(Target(call)), Stem(Name(Target(call))), h,
                                       Suffix(Name(Target(call)))))

\* decrypt_file called with no output path and the right password on a
\* container as encrypt_file wrote it
RightCall(call) ==
    /\ call.op = "decrypt_file"
    /\ call.out = None
    /\ \E i \in 1 .. Len(made) : Holds(call.pre, call.src, i) /\ call.pw = made[i].pw

INFO_FIELDS ==
    { "original_filename", "original_size", "encrypted_size", "algorithm",
      "key_derivation", "iterations" }

INVALID_FILE == Err("ValueError", "Invalid encrypted file")

get_encryption_info(f, encrypted_path) ==
    IF IsMissing(f, encrypted_path) THEN Err("FileNotFoundError", "Encrypted file not found")
    ELSE
    LET source == OpenRead(f, encrypted_path)
    IN  IF IsErr(source) THEN INVALID_FILE
        \* a short prefix leaves nothing to read, and json.loads('') raises
        ELSE IF Len(MetadataLengthBytes(source[2])) # PREFIX_LEN THEN INVALID_FILE
        ELSE
        LET parsed == JsonLoads(MetadataBytes(source[2]))
        IN  IF IsErr(parsed) THEN INVALID_FILE
            ELSE IF ~IsDict(parsed[2]) THEN INVALID_FILE
            ELSE IF ~(INFO_FIELDS \subseteq DOMAIN parsed[2][2]) THEN INVALID_FILE
            ELSE
            LET metadata == parsed[2][2]
            IN  IF metadata["original_size"][1] # "num"
                   \/ metadata["encrypted_size"][1] # "num" THEN INVALID_FILE
                \* ZeroDivisionError
                ELSE IF metadata["original_size"][2] = 0 THEN INVALID_FILE
                ELSE Ok([k \in INFO_FIELDS \cup {"compression_ratio"} |->
                            IF k = "compression_ratio"
                            THEN <<"ratio", metadata["encrypted_size"][2],
                                   metadata["original_size"][2]>>
                            ELSE metadata[k]])

GetEncryptionInfo(encrypted_path) ==
    /\ nops < MaxOps
    /\ last' = Call("get_encryption_info", encrypted_path, "", None,
                    get_encryption_info(fs, encrypted_path), fs, 0)
    /\ nops' = nops + 1
    /\ UNCHANGED <<fs, dirs, rng, made, flips, keyring, running, undo_vars>>

(***************************************************************************)
(* Every operation that reads a container, called on whatever the          *)
(* directory holds; decrypt_file also with the container's own path as     *)
(* output path.                                                            *)
(***************************************************************************)
ReaderDamages == {"other_algorithm", "no_salt", "short_prefix", "cut", "number"}

NextReaders ==
    \/ EncryptFile(SourceFile, "pw1", None)
    \/ \E p \in DOMAIN fs, how \in ReaderDamages : Damage(p, how)
    \/ \E p \in DOMAIN fs \cup {Missing}, pw \in Passwords : \E g \in Guesses(p, pw) :
         \E out \in {None, Some(p), Some(OutBin)} : DecryptFile(p, pw, out, g)
    \/ \E p \in DOMAIN fs \cup {Missing}, pw \in {"pw1"} : \E g \in Guesses(p, pw) :
         VerifyPassword(p, pw, g)
    \/ \E p \in DOMAIN fs \cup {Missing}, pw \in {"pw1"} : \E g \in Guesses(p, pw) :
         VerifyEncryptedFile(p, pw, g)
    \/ \E p \in DOMAIN fs \cup {Missing} : IsEncryptedFile(p)
    \/ \E p \in DOMAIN fs \cup {Missing} : GetEncryptionInfo(p)

SpecReaders == Init /\ [][NextReaders]_vars

Readers ==
    { "verify_password", "verify_encrypted_file", "is_encrypted_file",
      "get_encryption_info" }

\* C25: verify_password, verify_encrypted_file, is_encrypted_file and
\* get_encryption_info change no file at all; decrypt_file, whatever its
\* output path (the container's own path included), leaves every existing
\* file as it was, the container first of all, and writes at most one file,
\* one that did not exist.
C25_ContainersReadOnly ==
    /\ last.op \in Readers => fs = last.pre
    /\ last.op = "decrypt_file" =>
        /\ \A p \in DOMAIN last.pre : Exists(fs, p) /\ fs[p] = last.pre[p]
        /\ IF IsOk(last.res)
           THEN last.res[2] \notin DOMAIN last.pre
                /\ DOMAIN fs = DOMAIN last.pre \cup {last.res[2]}
           ELSE DOMAIN fs = DOMAIN last.pre

\* decrypt_file told to write to the container's own path: it succeeds,
\* elsewhere, and the container is as it was
C25_Witness ==
    /\ last.op = "decrypt_file"
    /\ last.out = Some(last.src)
    /\ IsOk(last.res)
    /\ last.res[2] # last.src
    /\ Len(made) = 1
    /\ fs[last.src] = File(made[1].data)

(***************************************************************************)
(* UndoManager (src/src/commands.py; src/src/utils/commands.py has the     *)
(* same class).  A command is known by its name; whether its undo() or     *)
(* execute() raises is the environment's choice.                           *)
(***************************************************************************)
Commands == {"c1", "c2"}
UndoLevels == {1, 2, DEFAULT_UNDO_LEVELS}

STARTED == <<"batch_operation_started">>
FINISHED == <<"batch_operation_finished">>
Executed(text, command) == <<"command_executed", text, command>>

EngineIdle == UNCHANGED <<fs, dirs, rng, made, flips, keyring, running>>

UndoCall(op, command, raised) ==
    Call(op, None, "", None, Ok(None), fs, 0)
    @@ [command |-> command, raised |-> raised, pre_undo |-> undo_stack,
        pre_redo |-> redo_stack, pre_emitted |-> emitted]

\* The failed command thrown away instead of put back
DropOnFailure(stack, command) == stack

\* except Exception: self.undo_stack.append(command), and the same for redo
RestoreOnFailure(stack, command) == Append(stack, command)

\* list.pop(): the list without its last element
Popped(stack) == SubSeq(stack, 1, Len(stack) - 1)

AddCommand(command) ==
    /\ nops < MaxOps
    /\ \E pushed \in {Append(undo_stack, command)} :
        undo_stack' = IF Len(pushed) > max_undo_levels THEN Tail(pushed) ELSE pushed
    /\ redo_stack' = <<>>
    /\ update_pending' = TRUE
    /\ last' = UndoCall("add_command", command, FALSE)
    /\ nops' = nops + 1
    /\ UNCHANGED <<max_undo_levels, emitted>>
    /\ EngineIdle

Undo(raises) ==
    /\ nops < MaxOps
    /\ IF undo_stack = <<>>
       THEN /\ UNCHANGED undo_vars
            /\ last' = UndoCall("undo", "", FALSE)
       ELSE \E command \in {undo_stack[Len(undo_stack)]} :
            /\ undo_stack' = IF raises THEN RestoreOnFailure(Popped(undo_stack), command)
                             ELSE Popped(undo_stack)
            /\ redo_stack' = IF raises THEN redo_stack ELSE Append(redo_stack, command)
            /\ emitted' = emitted \o << STARTED,
                                        Executed(IF raises THEN "Undo Failed" ELSE "Undid",
                                                 command),
                                        FINISHED >>
            /\ update_pending' = TRUE
            /\ last' = UndoCall("undo", command, raises)
            /\ UNCHANGED max_undo_levels
    /\ nops' = nops + 1
    /\ EngineIdle

Redo(raises) ==
    /\ nops < MaxOps
    /\ IF redo_stack = <<>>
       THEN /\ UNCHANGED undo_vars
            /\ last' = UndoCall("redo", "", FALSE)
       ELSE \E command \in {redo_stack[Len(redo_stack)]} :
            /\ redo_stack' = IF raises THEN RestoreOnFailure(Popped(redo_stack), command)
                             ELSE Popped(redo_stack)
            /\ undo_stack' = IF raises THEN undo_stack ELSE Append(undo_stack, command)
            /\ emitted' = emitted \o << STARTED,
                                        Executed(IF raises THEN "Redo Failed" ELSE "Redid",
                                                 command),
                                        FINISHED >>
            /\ update_pending' = TRUE
            /\ last' = UndoCall("redo", command, raises)
            /\ UNCHANGED max_undo_levels
    /\ nops' = nops + 1
    /\ EngineIdle

ClearHistory ==
    /\ nops < MaxOps
    /\ undo_stack' = <<>>
    /\ redo_stack' = <<>>
    /\ update_pending' = TRUE
    /\ last' = UndoCall("clear_history", "", FALSE)
    /\ nops' = nops + 1
    /\ UNCHANGED <<max_undo_levels, emitted>>
    /\ EngineIdle

\* apply_settings: self.undo_manager.max_undo_levels = undo_history_size
ApplySettings(undo_history_size) ==
    /\ nops < MaxOps
    /\ max_undo_levels' = undo_history_size
    /\ last' = UndoCall("apply_settings", "", FALSE)
    /\ nops' = nops + 1
    /\ UNCHANGED <<undo_stack, redo_stack, emitted, update_pending>>
    /\ EngineIdle

\* The update timer fires: _emit_stack_changed
EmitStackChanged ==
    /\ update_pending
    /\ emitted' = Append(emitted, <<"stack_changed", Len(undo_stack) > 0,
                                    Len(redo_stack) > 0>>)
    /\ update_pending' = FALSE
    /\ UNCHANGED <<undo_stack, redo_stack, max_undo_levels, last, nops>>
    /\ EngineIdle

InitUndo ==
    /\ fs = (SourceFile :> File(Plain(1)))
    /\ dirs = {"d1"}
    /\ rng = 0
    /\ made = <<>>
    /\ flips = {}
    /\ keyring = <<>>
    /\ running = <<>>
    /\ last = NoCall
    /\ nops = 0
    /\ \E levels \in UndoLevels : UndoManagerInit(levels)

NextUndo ==
    \/ \E command \in Commands : AddCommand(command)
    \/ \E raises \in BOOLEAN : Undo(raises)
    \/ \E raises \in BOOLEAN : Redo(raises)
    \/ ClearHistory
    \/ \E undo_history_size \in UndoLevels : ApplySettings(undo_history_size)
    \/ EmitStackChanged

SpecUndo == InitUndo /\ [][NextUndo]_vars

\* C26: in every state the undo stack holds at most max_undo_levels
\* commands; after add_command the redo stack is empty and the undo stack
\* is the one before with the command on top, less its oldest command when
\* that made it longer than the bound.
C26_UndoBound ==
    /\ Len(undo_stack) <= max_undo_levels
    /\ last.op = "add_command" =>
        /\ redo_stack = <<>>
        /\ undo_stack \in { Append(last.pre_undo, last.command),
                            Tail(Append(last.pre_undo, last.command)) }

\* C27: when the command's undo() raises inside undo, or its execute()
\* inside redo, both stacks are what they were before the call; and every
\* batch_operation_started the manager has emitted is followed by a
\* batch_operation_finished before the next one.
C27_FailureRolledBack ==
    /\ (last.op \in {"undo", "redo"} /\ last.raised) =>
            /\ undo_stack = last.pre_undo
            /\ redo_stack = last.pre_redo
    /\ \A i \in 1 .. Len(emitted) :
            emitted[i] = STARTED =>
                \E j \in i + 1 .. Len(emitted) :
                    /\ emitted[j] = FINISHED
                    /\ \A h \in i + 1 .. j - 1 : emitted[h] # STARTED

\* undo() fails on a stack of two commands: both are still there, and the
\* last signal is batch_operation_finished
C27_Witness ==
    /\ last.op = "undo"
    /\ last.raised
    /\ Len(last.pre_undo) = 2
    /\ undo_stack = last.pre_undo
    /\ Len(emitted) >= 3
    /\ emitted[Len(emitted) - 2] = STARTED
    /\ emitted[Len(emitted)] = FINISHED

\* Every check decrypt_file makes on the file at p before it writes
PassesChecks(f, p, password, g) ==
    /\ Exists(f, p)
    /\ ParsesAsContainer(f, p)
    /\ AlgorithmIsAes(f, p)
    /\ IvOf(f[p].data)[2] = IV_SIZE
    /\ Len(Ciphertext(f[p].data)) % BLOCK = 0
    /\ \E buffer \in {DecryptedBuffer(f, p, password, g)} :
        /\ IsOk(buffer)
        /\ buffer[2] # <<>> => ByteVal(buffer[2][Len(buffer[2])]) <= BLOCK

\* C28: a decrypt_file call that raises has created and changed no file,
\* and a call that wrote a file made every one of its checks first: the
\* file is there, its prefix and metadata parse, the algorithm is
\* supported, salt and iv decode, the cipher and the unpadding accepted the
\* ciphertext.
C28_AllOrNothing ==
    last.op = "decrypt_file" =>
        /\ IsErr(last.res) => fs = last.pre
        /\ fs # last.pre =>
            /\ IsOk(last.res)
            /\ PassesChecks(last.pre, last.src, last.pw, last.g)

\* the wrong password on a container as written: the call raises and the
\* directory is as it was
C28_Witness ==
    /\ last.op = "decrypt_file"
    /\ last.res = Err("ValueError", DECRYPT_FAILED)
    /\ Len(made) = 1
    /\ Holds(last.pre, last.src, 1)
    /\ last.pw # made[1].pw
    /\ fs = last.pre

SecondFile == Path("d2", NameTxt)
SubFolder == Path("d1", <<Word("sub")>>)

InitBatchDirs ==
    /\ \E n \in PlainLengths :
        fs = (SourceFile :> File(Plain(n)) @@ SecondFile :> File(Plain(2))
              @@ OtherFile :> File(Plain(1)) @@ SubFolder :> Folder)
    /\ dirs = {"d1", "d2"}
    /\ rng = 0
    /\ made = <<>>
    /\ flips = {}
    /\ keyring = <<>>
    /\ running = <<>>
    /\ last = NoCall
    /\ nops = 0
    /\ UndoManagerInit(DEFAULT_UNDO_LEVELS)

BatchDirLists ==
    { <<SourceFile, SecondFile>>, <<SecondFile, OtherFile, SourceFile>>,
      <<SourceFile, SubFolder, OtherFile>>, <<Missing, SecondFile>>, <<SubFolder>> }

NextBatchDirs ==
    \E source_paths \in BatchDirLists, output_dir \in {"d1", "out"} :
        BatchEncryptFiles(source_paths, "pw1", output_dir)

SpecBatchDirs == InitBatchDirs /\ [][NextBatchDirs]_vars

\* The inputs of the call that are regular files, in input order
RegularInputs(call) == SelectSeq(call.src, LAMBDA p : IsFile(call.pre, p))

\* data is a container of the plaintext plain
ContainerOf(data, plain) ==
    /\ MetaOf(data)["original_size"] = JNum(Len(plain))
    /\ \A k \in 1 .. Len(plain) : PaddedByte(data, k) = plain[k]

\* C30: batch_encrypt_files returns without error when some inputs are not
\* regular files; what it returns is, for the regular files in input order,
\* the paths output_dir/<name>.encrypted, pairwise distinct, and each holds
\* the container of its own input.
C30_BatchOneToOne ==
    (last.op = "batch_encrypt_files"
        /\ \A k \in 1 .. Len(last.src) :
                IsFile(last.pre, last.src[k]) => last.pre[last.src[k]].readable)
    => \E inputs \in {RegularInputs(last)} :
        /\ IsOk(last.res)
        /\ Len(last.res[2]) = Len(inputs)
        /\ \A k \in 1 .. Len(inputs) :
            /\ last.res[2][k] = Path(last.out, Name(inputs[k]) \o <<Ext("encrypted")>>)
            /\ Exists(fs, last.res[2][k])
            /\ ContainerOf(fs[last.res[2][k]].data, last.pre[inputs[k]].data)
            /\ \A j \in 1 .. Len(inputs) : j # k => last.res[2][j] # last.res[2][k]

============================================================================
